---- MODULE Spec2Model ----
(***************************************************************************)
(* A model of rusty-panda's data core: the MetadataValue ordering          *)
(* (data/model.rs), SpectralDataset::from_spectra (data/model.rs), the     *)
(* three file loaders (data/loader.rs), filtered_indices (data/filter.rs)  *)
(* and the AppState operations (state.rs, ui/panels.rs).                   *)
(***************************************************************************)
EXTENDS Integers, Sequences, FiniteSets, TLC

VARIABLES
    \* ---- Ord / PartialEq of MetadataValue (data/model.rs) ----
    lhs, rhs,           \* the two values compared
    cmp_result,         \* <<>> before the comparison, <<[lr, rl, eq]>> after
    \* ---- SpectralDataset::from_spectra input (data/model.rs) ----
    spectra,            \* the rows handed to from_spectra
    \* ---- loader (data/loader.rs) ----
    file,               \* the file handed to load_file
    loaded,             \* <<>> before the load, <<Result>> after
    \* ---- AppState (state.rs) ----
    dataset,            \* Option<SpectralDataset>: <<>> or <<d>>
    filters,            \* FilterState: column name -> set of values
    visible_indices,    \* Vec<usize>
    color_column,       \* Option<String>: <<>> or <<name>>
    color_map,          \* Option<ColorMap>: <<>> or <<cm>>
    status_message,     \* Option<String>: <<>> or <<msg>>
    loading,            \* bool
    \* ---- guess_metadata_type (data/loader.rs) ----
    cell_text,          \* the text of a CSV cell
    guessed,            \* <<>> before the call, <<MetadataValue>> after
    \* ---- ColorMap::new (color.rs) ----
    color_values,       \* the BTreeSet<MetadataValue> the map is built from
    last_op             \* history: the operation that produced this state

vars == <<lhs, rhs, cmp_result, spectra, file, loaded, dataset, filters,
          visible_indices, color_column, color_map, status_message, loading,
          cell_text, guessed, color_values, last_op>>

cmpVars == <<lhs, rhs, cmp_result>>
loadVars == <<file, loaded>>
guessVars == <<cell_text, guessed>>
appVars == <<dataset, filters, visible_indices, color_column, color_map,
             status_message, loading>>

\* Option<T> is a sequence of length 0 or 1.
None == <<>>
Some(v) == <<v>>
IsSome(o) == Len(o) = 1
Unwrap(o) == o[1]

(***************************************************************************)
(* Text.  A Rust String is the sequence of its bytes; String::cmp is the   *)
(* lexicographic order of the bytes.                                       *)
(***************************************************************************)
\* The printable ASCII characters, from the space (byte 32) on.
Ascii ==
    <<" ", "!", "quote", "#", "$", "%", "&", "'", "(", ")", "*", "+",
       ",", "-", ".", "/", "0", "1", "2", "3", "4", "5", "6", "7",
       "8", "9", ":", ";", "<", "=", ">", "?", "@", "A", "B", "C",
       "D", "E", "F", "G", "H", "I", "J", "K", "L", "M", "N", "O",
       "P", "Q", "R", "S", "T", "U", "V", "W", "X", "Y", "Z", "[",
       "backslash", "]", "^", "_", "backtick", "a", "b", "c", "d", "e", "f", "g",
       "h", "i", "j", "k", "l", "m", "n", "o", "p", "q", "r", "s",
       "t", "u", "v", "w", "x", "y", "z", "{", "|", "}", "~">>

\* The byte of a character.
Chr(c) == 31 + (CHOOSE k \in 1..Len(Ascii) : Ascii[k] = c)

Str(q) == [i \in 1..Len(q) |-> Chr(q[i])]

\* std::cmp::Ordering of two integers (i64::cmp, u8::cmp, bool::cmp as 0/1).
IntCmp(a, b) == IF a < b THEN "Less" ELSE IF a > b THEN "Greater" ELSE "Equal"

\* str::cmp: the first differing byte decides, then the shorter one is Less.
RECURSIVE StrCmp(_, _)
StrCmp(a, b) ==
    IF a = <<>> /\ b = <<>> THEN "Equal"
    ELSE IF a = <<>> THEN "Less"
    ELSE IF b = <<>> THEN "Greater"
    ELSE IF Head(a) # Head(b) THEN IntCmp(Head(a), Head(b))
    ELSE StrCmp(Tail(a), Tail(b))

(***************************************************************************)
(* f64.  A float is its sign bit and the magnitude of its remaining bits.  *)
(* A finite magnitude is the absolute value in tenths (below InfMag); the  *)
(* bits of an infinity are InfMag and those of the NaN modelled InfMag+1,  *)
(* which keeps the order of the magnitudes that of the IEEE 754 bits.      *)
(***************************************************************************)
MaxFinite == 2
InfMag == 1000

NaNMag == InfMag + 1

F64(neg, mag) == [neg |-> neg, mag |-> mag]
F64s == [neg : BOOLEAN, mag : (0..MaxFinite) \cup {InfMag, NaNMag}]
IsNaN(f) == f.mag > InfMag
NaN == F64(FALSE, NaNMag)

\* f64::total_cmp: the bits as a sign-magnitude integer, i.e. the magnitude
\* for a clear sign bit and -1 - magnitude for a set one, compared as i64.
TotalKey(f) == IF f.neg THEN (0 - 1) - f.mag ELSE f.mag
total_cmp(a, b) == IntCmp(TotalKey(a), TotalKey(b))

\* f64's == (IEEE 754): NaN equals nothing, the two zeros are equal.
F64Eq(a, b) ==
    /\ ~IsNaN(a)
    /\ ~IsNaN(b)
    /\ \/ a.mag = 0 /\ b.mag = 0
       \/ a = b

\* `i as f64` for the small integers of the model.
IntToF64(i) == F64(i < 0, 10 * (IF i < 0 THEN 0 - i ELSE i))

(***************************************************************************)
(* MetadataValue (data/model.rs 10-19): a tagged union, one record shape   *)
(* for all variants with the unused payload fields at their defaults.      *)
(***************************************************************************)
MV(tag, b, i, f, s) == [tag |-> tag, b |-> b, i |-> i, f |-> f, s |-> s]

MString(s) == MV("String", FALSE, 0, F64(FALSE, 0), s)
MInteger(i) == MV("Integer", FALSE, i, F64(FALSE, 0), <<>>)
MFloat(f) == MV("Float", FALSE, 0, f, <<>>)
MBool(b) == MV("Bool", b, 0, F64(FALSE, 0), <<>>)
MDate(s) == MV("Date", FALSE, 0, F64(FALSE, 0), s)
MNull == MV("Null", FALSE, 0, F64(FALSE, 0), <<>>)

\* A variant rank in which String and Date share a value.
discriminant_shared(v) ==
    CASE v.tag = "Null" -> 0
      [] v.tag = "Bool" -> 1
      [] v.tag = "Integer" -> 2
      [] v.tag = "Float" -> 3
      [] v.tag = "String" -> 4
      [] v.tag = "Date" -> 4

\* fn discriminant inside Ord::cmp.
discriminant(v) ==
    CASE v.tag = "Null" -> 0
      [] v.tag = "Bool" -> 1
      [] v.tag = "Integer" -> 2
      [] v.tag = "Float" -> 3
      [] v.tag = "String" -> 4
      [] v.tag = "Date" -> 5

BoolInt(b) == IF b THEN 1 ELSE 0

\* impl Ord for MetadataValue.
cmp(a, b) ==
    LET da == discriminant(a)
        db == discriminant(b)
    IN  IF da # db THEN IntCmp(da, db)
        ELSE CASE a.tag = "Null" /\ b.tag = "Null" -> "Equal"
               [] a.tag = "Bool" /\ b.tag = "Bool" -> IntCmp(BoolInt(a.b), BoolInt(b.b))
               [] a.tag = "Integer" /\ b.tag = "Integer" -> IntCmp(a.i, b.i)
               [] a.tag = "Float" /\ b.tag = "Float" -> total_cmp(a.f, b.f)
               [] a.tag = "String" /\ b.tag = "String" -> StrCmp(a.s, b.s)
               [] a.tag = "Date" /\ b.tag = "Date" -> StrCmp(a.s, b.s)
               [] OTHER -> "Equal"

\* #[derive(PartialEq)]: same variant and equal payloads, f64 by ==.
eq(a, b) ==
    /\ a.tag = b.tag
    /\ CASE a.tag = "String" -> a.s = b.s
         [] a.tag = "Integer" -> a.i = b.i
         [] a.tag = "Float" -> F64Eq(a.f, b.f)
         [] a.tag = "Bool" -> a.b = b.b
         [] a.tag = "Date" -> a.s = b.s
         [] a.tag = "Null" -> TRUE

(***************************************************************************)
(* BTreeSet<MetadataValue> is a set whose membership and insertion are     *)
(* decided by Ord::cmp; BTreeMap<String, _> is a function on its keys.     *)
(***************************************************************************)
BTreeSetContains(S, v) == \E e \in S : cmp(e, v) = "Equal"
BTreeSetInsert(S, v) == IF BTreeSetContains(S, v) THEN S ELSE S \cup {v}

\* The keys of a BTreeMap<String, _> (or a BTreeSet<String>) in iteration
\* order: ascending by str::cmp.
RECURSIVE SortedNames(_)
SortedNames(S) ==
    IF S = {} THEN <<>>
    ELSE LET m == CHOOSE n \in S : \A o \in S : StrCmp(n, o) # "Greater"
         IN  <<m>> \o SortedNames(S \ {m})

\* The elements of a BTreeSet<MetadataValue> in iteration order.
RECURSIVE SortedValues(_)
SortedValues(S) ==
    IF S = {} THEN <<>>
    ELSE LET m == CHOOSE v \in S : \A o \in S : cmp(v, o) # "Greater"
         IN  <<m>> \o SortedValues(S \ {m})

(***************************************************************************)
(* Spectrum and SpectralDataset (data/model.rs 101-159).                   *)
(***************************************************************************)
Spectrum(x, y, metadata) == [x |-> x, y |-> y, metadata |-> metadata]

EmptyMap == [k \in {} |-> MNull]

\* unique_values.insert(col, {val}): the column's set is replaced, not grown.
entry_insert_overwrite(uv, col, val) ==
    [c \in DOMAIN uv \cup {col} |-> IF c = col THEN {val} ELSE uv[c]]

\* unique_values.entry(col).or_default().insert(val)
entry_insert(uv, col, val) ==
    IF col \in DOMAIN uv
    THEN [uv EXCEPT ![col] = BTreeSetInsert(@, val)]
    ELSE [c \in DOMAIN uv \cup {col} |->
            IF c = col THEN BTreeSetInsert({}, val) ELSE uv[c]]

\* The inner loop of from_spectra over one row's metadata, keys ascending.
RECURSIVE ScanRow(_, _, _)
ScanRow(acc, sp, cols) ==
    IF cols = <<>> THEN acc
    ELSE LET col == Head(cols)
             val == sp.metadata[col]
         IN  ScanRow([column_names_set |-> acc.column_names_set \cup {col},
                      unique_values |-> entry_insert(acc.unique_values, col, val)],
                     sp, Tail(cols))

\* The outer loop of from_spectra over the rows.
RECURSIVE ScanRows(_, _)
ScanRows(acc, rows) ==
    IF rows = <<>> THEN acc
    ELSE ScanRows(ScanRow(acc, Head(rows), SortedNames(DOMAIN Head(rows).metadata)),
                  Tail(rows))

\* from_spectra that records Null for a column in every dataset where some
\* row lacks the column.
from_spectra_null_filled(rows) ==
    LET acc == ScanRows([column_names_set |-> {}, unique_values |-> EmptyMap], rows)
    IN  [spectra |-> rows,
         column_names |-> SortedNames(acc.column_names_set),
         unique_values |->
            [c \in DOMAIN acc.unique_values |->
                IF \E k \in DOMAIN rows : c \notin DOMAIN rows[k].metadata
                THEN BTreeSetInsert(acc.unique_values[c], MNull)
                ELSE acc.unique_values[c]]]

\* SpectralDataset::from_spectra
from_spectra(rows) ==
    LET acc == ScanRows([column_names_set |-> {}, unique_values |-> EmptyMap], rows)
    IN  [spectra |-> rows,
         column_names |-> SortedNames(acc.column_names_set),
         unique_values |-> acc.unique_values]

(***************************************************************************)
(* FilterState and filtered_indices (data/filter.rs).                      *)
(***************************************************************************)
\* init_filter_state: every column with all of its values selected.
init_filter_state(ds) == ds.unique_values

\* The closure of filtered_indices without its "everything selected" skip.
RECURSIVE row_passes_noskip(_, _, _, _)
row_passes_noskip(ds, flt, sp, cols) ==
    IF cols = <<>> THEN TRUE
    ELSE LET col == Head(cols)
             selected == flt[col]
         IN  IF selected = {} THEN FALSE
             ELSE IF col \in DOMAIN sp.metadata
                  THEN IF ~BTreeSetContains(selected, sp.metadata[col]) THEN FALSE
                       ELSE row_passes_noskip(ds, flt, sp, Tail(cols))
                  ELSE IF ~BTreeSetContains(selected, MNull) THEN FALSE
                       ELSE row_passes_noskip(ds, flt, sp, Tail(cols))

\* The closure of filtered_indices that lets an empty selection pass.
RECURSIVE row_passes_emptyok(_, _, _, _)
row_passes_emptyok(ds, flt, sp, cols) ==
    IF cols = <<>> THEN TRUE
    ELSE LET col == Head(cols)
             selected == flt[col]
         IN  IF selected = {} THEN row_passes_emptyok(ds, flt, sp, Tail(cols))
             ELSE IF /\ col \in DOMAIN ds.unique_values
                     /\ Cardinality(selected) = Cardinality(ds.unique_values[col])
             THEN row_passes_emptyok(ds, flt, sp, Tail(cols))
             ELSE IF col \in DOMAIN sp.metadata
                  THEN IF ~BTreeSetContains(selected, sp.metadata[col]) THEN FALSE
                       ELSE row_passes_emptyok(ds, flt, sp, Tail(cols))
                  ELSE IF ~BTreeSetContains(selected, MNull) THEN FALSE
                       ELSE row_passes_emptyok(ds, flt, sp, Tail(cols))

\* The closure of filtered_indices that hides every row lacking the column.
RECURSIVE row_passes_absentfails(_, _, _, _)
row_passes_absentfails(ds, flt, sp, cols) ==
    IF cols = <<>> THEN TRUE
    ELSE LET col == Head(cols)
             selected == flt[col]
         IN  IF selected = {} THEN FALSE
             ELSE IF /\ col \in DOMAIN ds.unique_values
                     /\ Cardinality(selected) = Cardinality(ds.unique_values[col])
             THEN row_passes_absentfails(ds, flt, sp, Tail(cols))
             ELSE IF col \in DOMAIN sp.metadata
                  THEN IF ~BTreeSetContains(selected, sp.metadata[col]) THEN FALSE
                       ELSE row_passes_absentfails(ds, flt, sp, Tail(cols))
                  ELSE FALSE

\* The closure of filtered_indices (filter.rs 33-60): the loop over the
\* (column, selection) pairs of `filters`, keys ascending, for one row.
RECURSIVE row_passes(_, _, _, _)
row_passes(ds, flt, sp, cols) ==
    IF cols = <<>> THEN TRUE
    ELSE LET col == Head(cols)
             selected == flt[col]
         IN  IF selected = {} THEN FALSE
             ELSE IF /\ col \in DOMAIN ds.unique_values
                     /\ Cardinality(selected) = Cardinality(ds.unique_values[col])
             THEN row_passes(ds, flt, sp, Tail(cols))
             ELSE IF col \in DOMAIN sp.metadata
                  THEN IF ~BTreeSetContains(selected, sp.metadata[col]) THEN FALSE
                       ELSE row_passes(ds, flt, sp, Tail(cols))
                  ELSE IF ~BTreeSetContains(selected, MNull) THEN FALSE
                       ELSE row_passes(ds, flt, sp, Tail(cols))

\* .enumerate().filter(..).map(|(i, _)| i).collect(): 0-based row indices.
RECURSIVE CollectIndices(_, _, _)
CollectIndices(ds, flt, i) ==
    IF i >= Len(ds.spectra) THEN <<>>
    ELSE (IF row_passes(ds, flt, ds.spectra[i + 1], SortedNames(DOMAIN flt))
          THEN <<i>> ELSE <<>>)
         \o CollectIndices(ds, flt, i + 1)

\* filtered_indices(dataset, filters)
filtered_indices(ds, flt) == CollectIndices(ds, flt, 0)

(***************************************************************************)
(* Text functions of the standard library used by the loader.              *)
(***************************************************************************)
\* str::to_ascii_lowercase
to_ascii_lowercase(s) ==
    [k \in 1..Len(s) |-> IF s[k] >= Chr("A") /\ s[k] <= Chr("Z") THEN s[k] + 32 ELSE s[k]]

\* str::split(sep) collected: the pieces between the separators, at least one.
RECURSIVE SplitFrom(_, _, _)
SplitFrom(s, sep, cur) ==
    IF s = <<>> THEN <<cur>>
    ELSE IF Head(s) = sep THEN <<cur>> \o SplitFrom(Tail(s), sep, <<>>)
    ELSE SplitFrom(Tail(s), sep, Append(cur, Head(s)))

split(s, sep) == SplitFrom(s, sep, <<>>)

\* str::trim for the whitespace of the model, the space.
RECURSIVE TrimStart(_)
TrimStart(s) == IF s # <<>> /\ Head(s) = Chr(" ") THEN TrimStart(Tail(s)) ELSE s

RECURSIVE TrimEnd(_)
TrimEnd(s) ==
    IF s # <<>> /\ s[Len(s)] = Chr(" ") THEN TrimEnd(SubSeq(s, 1, Len(s) - 1)) ELSE s

trim(s) == TrimEnd(TrimStart(s))

IsDigit(c) == c >= Chr("0") /\ c <= Chr("9")
AllDigits(s) == s # <<>> /\ \A k \in 1..Len(s) : IsDigit(s[k])
AllDigitsOrEmpty(s) == \A k \in 1..Len(s) : IsDigit(s[k])

RECURSIVE DigitsValue(_)
DigitsValue(s) ==
    IF s = <<>> THEN 0 ELSE 10 * DigitsValue(SubSeq(s, 1, Len(s) - 1)) + (s[Len(s)] - Chr("0"))

HasSign(s) == s # <<>> /\ Head(s) \in {Chr("-"), Chr("+")}
Unsigned(s) == IF HasSign(s) THEN Tail(s) ELSE s
IsNegative(s) == s # <<>> /\ Head(s) = Chr("-")

\* Decimal digits without their leading zeros.
RECURSIVE StripZeros(_)
StripZeros(s) == IF s # <<>> /\ Head(s) = Chr("0") THEN StripZeros(Tail(s)) ELSE s

\* The digits of i64::MAX and of the magnitude of i64::MIN.
I64MaxDigits ==
    Str(<<"9", "2", "2", "3", "3", "7", "2", "0", "3", "6", "8", "5", "4", "7", "7", "5",
          "8", "0", "7">>)
I64MinDigits ==
    Str(<<"9", "2", "2", "3", "3", "7", "2", "0", "3", "6", "8", "5", "4", "7", "7", "5",
          "8", "0", "8">>)

\* The number written by the digits a is at most the one written by b.
DigitsLeq(a, b) ==
    LET sa == StripZeros(a)
        sb == StripZeros(b)
    IN  Len(sa) < Len(sb) \/ (Len(sa) = Len(sb) /\ StrCmp(sa, sb) # "Greater")

\* str::parse::<i64>: an optional sign and decimal digits of a number that
\* fits 64 bits.
parse_i64(s) ==
    IF /\ AllDigits(Unsigned(s))
       /\ DigitsLeq(Unsigned(s), IF IsNegative(s) THEN I64MinDigits ELSE I64MaxDigits)
    THEN Some(IF IsNegative(s) THEN 0 - DigitsValue(StripZeros(Unsigned(s)))
              ELSE DigitsValue(StripZeros(Unsigned(s))))
    ELSE None

\* The magnitude kept for every finite value too large for the tenths below
\* InfMag.
HugeMag == InfMag - 1

RECURSIVE Pow10(_)
Pow10(n) == IF n = 0 THEN 1 ELSE 10 * Pow10(n - 1)

\* The magnitude, in tenths, of the decimal number with the given integer
\* digits, fraction digits and exponent text (sign and digits); a fraction is
\* kept to its first digit and a negative exponent gives zero.
DecimalMag(int_part, frac_part, exp_text) ==
    LET ip == StripZeros(int_part)
        ex == StripZeros(Unsigned(exp_text))
        tenths == 10 * DigitsValue(ip)
                  + (IF frac_part = <<>> THEN 0 ELSE Head(frac_part) - Chr("0"))
    IN  IF Len(ip) > 2 THEN HugeMag
        ELSE IF tenths = 0 THEN 0
        ELSE IF IsNegative(exp_text) /\ ex # <<>> THEN 0
        ELSE IF Len(ex) > 1 \/ DigitsValue(ex) > 3 THEN HugeMag
        ELSE IF tenths * Pow10(DigitsValue(ex)) >= HugeMag THEN HugeMag
        ELSE tenths * Pow10(DigitsValue(ex))

\* The position of the first of the characters cs in u, or Len(u) + 1.
FirstOf(u, cs) ==
    IF \E k \in 1..Len(u) : u[k] \in cs
    THEN CHOOSE k \in 1..Len(u) : u[k] \in cs /\ \A o \in 1..(k - 1) : u[o] \notin cs
    ELSE Len(u) + 1

\* A mantissa: digits with at most one point and at least one digit.
ParseMantissa(neg, mant, d1, has_exp, exp_text) ==
    IF /\ AllDigitsOrEmpty(SubSeq(mant, 1, d1 - 1))
       /\ AllDigitsOrEmpty(SubSeq(mant, d1 + 1, Len(mant)))
       /\ Len(mant) > (IF d1 <= Len(mant) THEN 1 ELSE 0)
       /\ ~has_exp \/ AllDigits(Unsigned(exp_text))
    THEN Some(F64(neg, DecimalMag(SubSeq(mant, 1, d1 - 1),
                                  SubSeq(mant, d1 + 1, Len(mant)), exp_text)))
    ELSE None

\* A decimal number cut at its first "e" or "E".
ParseDecimal(neg, u, e1) ==
    ParseMantissa(neg, SubSeq(u, 1, e1 - 1),
                  FirstOf(SubSeq(u, 1, e1 - 1), {Chr(".")}),
                  e1 <= Len(u), SubSeq(u, e1 + 1, Len(u)))

\* The text after the sign.
ParseUnsigned(neg, u) ==
    IF to_ascii_lowercase(u) = Str(<<"n", "a", "n">>) THEN Some(F64(neg, NaNMag))
    ELSE IF to_ascii_lowercase(u) \in {Str(<<"i", "n", "f">>),
                                       Str(<<"i", "n", "f", "i", "n", "i", "t", "y">>)}
    THEN Some(F64(neg, InfMag))
    ELSE ParseDecimal(neg, u, FirstOf(u, {Chr("e"), Chr("E")}))

\* str::parse::<f64>: an optional sign, then "inf", "infinity" or "nan" in
\* any case, or a decimal number: digits with an optional point, at least
\* one digit, and an optional exponent.
parse_f64(s) == ParseUnsigned(IsNegative(s), Unsigned(s))

(***************************************************************************)
(* Result<SpectralDataset> and the errors of the loader.  An error is the  *)
(* data its message is formatted from; fields a message does not carry are *)
(* -1 or empty.                                                            *)
(***************************************************************************)
LoadError(kind, row, col, elem, x_len, y_len, text) ==
    [kind |-> kind, row |-> row, col |-> col, elem |-> elem,
     x_len |-> x_len, y_len |-> y_len, text |-> text]

Ok(v) == [ok |-> TRUE, value |-> Some(v), err |-> None]
Err(e) == [ok |-> FALSE, value |-> None, err |-> Some(e)]

UnsupportedFormat(ext) == LoadError("UnsupportedFormat", 0 - 1, <<>>, 0 - 1, 0 - 1, 0 - 1, ext)
IoFailure == LoadError("IoFailure", 0 - 1, <<>>, 0 - 1, 0 - 1, 0 - 1, <<>>)
ParseFailure == LoadError("ParseFailure", 0 - 1, <<>>, 0 - 1, 0 - 1, 0 - 1, <<>>)
RowFailure(row) == LoadError("RowFailure", row, <<>>, 0 - 1, 0 - 1, 0 - 1, <<>>)
MissingRequiredColumn(col) == LoadError("MissingRequiredColumn", 0 - 1, col, 0 - 1, 0 - 1, 0 - 1, <<>>)
MissingArray(row, col) == LoadError("MissingArray", row, col, 0 - 1, 0 - 1, 0 - 1, <<>>)
MalformedValue(row, col, elem, text) == LoadError("MalformedValue", row, col, elem, 0 - 1, 0 - 1, text)
ShapeMismatch(row, x_len, y_len) == LoadError("ShapeMismatch", row, <<>>, 0 - 1, x_len, y_len, <<>>)
ListReadFailure(row, col) == LoadError("ListReadFailure", row, col, 0 - 1, 0 - 1, 0 - 1, <<>>)

NameX == Str(<<"x">>)
NameY == Str(<<"y">>)

(***************************************************************************)
(* serde_json::Value as load_json sees it: one record shape for all of its *)
(* variants.  A Number is an i64 ("int"), a u64 above i64::MAX ("uint") or *)
(* a finite f64 ("float").                                                 *)
(***************************************************************************)
JNum(k, i, f) == [k |-> k, i |-> i, f |-> f]
JV(t, b, n, s, a) == [t |-> t, b |-> b, n |-> n, s |-> s, a |-> a]

JNull == JV("null", FALSE, JNum("int", 0, F64(FALSE, 0)), <<>>, <<>>)
JBool(b) == JV("bool", b, JNum("int", 0, F64(FALSE, 0)), <<>>, <<>>)
JInt(i) == JV("number", FALSE, JNum("int", i, F64(FALSE, 0)), <<>>, <<>>)
JUint(f) == JV("number", FALSE, JNum("uint", 0, f), <<>>, <<>>)
JFloat(f) == JV("number", FALSE, JNum("float", 0, f), <<>>, <<>>)
JString(s) == JV("string", FALSE, JNum("int", 0, F64(FALSE, 0)), s, <<>>)
JArray(a) == JV("array", FALSE, JNum("int", 0, F64(FALSE, 0)), <<>>, a)
JObject == JV("object", FALSE, JNum("int", 0, F64(FALSE, 0)), <<>>, <<>>)

\* Number::as_i64 and Value::as_f64
as_i64(n) == IF n.k = "int" THEN Some(n.i) ELSE None
as_f64(v) ==
    IF v.t # "number" THEN None
    ELSE IF v.n.k = "int" THEN Some(IntToF64(v.n.i))
    ELSE Some(v.n.f)

\* Value::to_string of the arrays and objects of the model: the empty ones.
JsonText(v) == IF v.t = "array" THEN Str(<<"[", "]">>) ELSE Str(<<"{", "}">>)

\* json_to_metadata (loader.rs 108-124)
json_to_metadata(val) ==
    CASE val.t = "string" -> MString(val.s)
      [] val.t = "number" ->
            IF IsSome(as_i64(val.n)) THEN MInteger(Unwrap(as_i64(val.n)))
            ELSE MFloat(Unwrap(as_f64(val)))
      [] val.t = "bool" -> MBool(val.b)
      [] val.t = "null" -> MNull
      [] OTHER -> MString(JsonText(val))

SetMin(S) == CHOOSE m \in S : \A o \in S : m <= o

\* json_array_to_f64 (loader.rs 94-106): the first element that is not a
\* number fails the row.
json_array_to_f64(val, row, col) ==
    IF ~IsSome(val) \/ Unwrap(val).t # "array" THEN Err(MissingArray(row, col))
    ELSE LET arr == Unwrap(val).a
             bad == {j \in 1..Len(arr) : ~IsSome(as_f64(arr[j]))}
         IN  IF bad # {} THEN Err(MalformedValue(row, col, SetMin(bad) - 1, <<>>))
             ELSE Ok([j \in 1..Len(arr) |-> Unwrap(as_f64(arr[j]))])

\* obj.get(key)
JsonGet(obj, key) == IF key \in DOMAIN obj.fields THEN Some(obj.fields[key]) ELSE None

\* The metadata of a JSON record: every key but x and y, converted.
JsonMetadata(obj) ==
    [k \in DOMAIN obj.fields \ {NameX, NameY} |-> json_to_metadata(obj.fields[k])]

\* The body of load_json's loop with the x/y length check left out.
json_row_unchecked(rec, i) ==
    IF ~rec.object THEN Err(RowFailure(i))
    ELSE LET x == json_array_to_f64(JsonGet(rec, NameX), i, NameX)
             y == json_array_to_f64(JsonGet(rec, NameY), i, NameY)
         IN  IF ~x.ok THEN x
             ELSE IF ~y.ok THEN y
             ELSE Ok(Spectrum(Unwrap(x.value), Unwrap(y.value), JsonMetadata(rec)))

\* The body of load_json's loop (loader.rs 68-89) for record i.
json_row(rec, i) ==
    IF ~rec.object THEN Err(RowFailure(i))
    ELSE LET x == json_array_to_f64(JsonGet(rec, NameX), i, NameX)
             y == json_array_to_f64(JsonGet(rec, NameY), i, NameY)
         IN  IF ~x.ok THEN x
             ELSE IF ~y.ok THEN y
             ELSE IF Len(Unwrap(x.value)) # Len(Unwrap(y.value))
             THEN Err(ShapeMismatch(i, Len(Unwrap(x.value)), Len(Unwrap(y.value))))
             ELSE Ok(Spectrum(Unwrap(x.value), Unwrap(y.value), JsonMetadata(rec)))

\* load_json's loop: the first failing record ends the load.
RECURSIVE JsonRows(_, _, _)
JsonRows(records, i, acc) ==
    IF i >= Len(records) THEN Ok(from_spectra(acc))
    ELSE LET r == json_row(records[i + 1], i)
         IN  IF ~r.ok THEN r ELSE JsonRows(records, i + 1, Append(acc, Unwrap(r.value)))

\* load_json (loader.rs 58-92)
load_json(f) ==
    IF ~f.readable THEN Err(IoFailure)
    ELSE IF f.format # "json" \/ ~f.json.valid THEN Err(ParseFailure)
    ELSE IF ~f.json.is_array THEN Err(ParseFailure)
    ELSE JsonRows(f.json.records, 0, <<>>)

(***************************************************************************)
(* The CSV loader (loader.rs 134-208).  A CSV document is its header row   *)
(* and its records, each a sequence of field texts; the reader (not        *)
(* flexible) fails a record whose field count differs from the header's.   *)
(***************************************************************************)
\* guess_metadata_type (loader.rs 194-208)
\* guess_metadata_type that tries the float before the integer.
guess_metadata_type_float_first(s) ==
    IF s = <<>> THEN MNull
    ELSE IF IsSome(parse_f64(s)) THEN MFloat(Unwrap(parse_f64(s)))
    ELSE IF IsSome(parse_i64(s)) THEN MInteger(Unwrap(parse_i64(s)))
    ELSE IF s = Str(<<"t", "r", "u", "e">>) \/ s = Str(<<"f", "a", "l", "s", "e">>)
    THEN MBool(s = Str(<<"t", "r", "u", "e">>))
    ELSE MString(s)

guess_metadata_type(s) ==
    IF s = <<>> THEN MNull
    ELSE IF IsSome(parse_i64(s)) THEN MInteger(Unwrap(parse_i64(s)))
    ELSE IF IsSome(parse_f64(s)) THEN MFloat(Unwrap(parse_f64(s)))
    ELSE IF s = Str(<<"t", "r", "u", "e">>) \/ s = Str(<<"f", "a", "l", "s", "e">>)
    THEN MBool(s = Str(<<"t", "r", "u", "e">>))
    ELSE MString(s)

\* parse_semicolon_floats (loader.rs 183-192): the first token that is not
\* a number fails the row.
parse_semicolon_floats(s, row, col) ==
    LET toks == split(s, Chr(";"))
        bad == {j \in 1..Len(toks) : ~IsSome(parse_f64(trim(toks[j])))}
    IN  IF bad # {} THEN Err(MalformedValue(row, col, SetMin(bad) - 1, toks[SetMin(bad)]))
        ELSE Ok([j \in 1..Len(toks) |-> Unwrap(parse_f64(trim(toks[j])))])

\* headers.iter().position(|h| h == name): 0-based, the first match.
position(headers, name) ==
    LET hits == {k \in 1..Len(headers) : headers[k] = name}
    IN  IF hits = {} THEN None ELSE Some(SetMin(hits) - 1)

\* record.get(idx).unwrap_or("")
RecordGet(rec, idx) == IF idx + 1 \in DOMAIN rec THEN rec[idx + 1] ELSE <<>>

SetMax(S) == CHOOSE m \in S : \A o \in S : m >= o

\* The metadata loop of load_csv (loader.rs 168-175): every field but those
\* at x_idx and y_idx, inserted under its header; a later field of the same
\* header replaces an earlier one.
CsvMetadata(headers, rec, x_idx, y_idx) ==
    LET cols == {k \in 1..Len(rec) : k - 1 # x_idx /\ k - 1 # y_idx}
    IN  [n \in {headers[k] : k \in cols} |->
            guess_metadata_type(rec[SetMax({k \in cols : headers[k] = n})])]

\* The body of load_csv's loop with the x/y length check left out.
csv_row_unchecked(headers, rec, row_no, x_idx, y_idx) ==
    IF Len(rec) # Len(headers) THEN Err(RowFailure(row_no))
    ELSE LET x == parse_semicolon_floats(RecordGet(rec, x_idx), row_no, NameX)
             y == parse_semicolon_floats(RecordGet(rec, y_idx), row_no, NameY)
         IN  IF ~x.ok THEN x
             ELSE IF ~y.ok THEN y
             ELSE Ok(Spectrum(Unwrap(x.value), Unwrap(y.value),
                              CsvMetadata(headers, rec, x_idx, y_idx)))

\* The body of load_csv's loop (loader.rs 154-178) for record row_no.
csv_row(headers, rec, row_no, x_idx, y_idx) ==
    IF Len(rec) # Len(headers) THEN Err(RowFailure(row_no))
    ELSE LET x == parse_semicolon_floats(RecordGet(rec, x_idx), row_no, NameX)
             y == parse_semicolon_floats(RecordGet(rec, y_idx), row_no, NameY)
         IN  IF ~x.ok THEN x
             ELSE IF ~y.ok THEN y
             ELSE IF Len(Unwrap(x.value)) # Len(Unwrap(y.value))
             THEN Err(ShapeMismatch(row_no, Len(Unwrap(x.value)), Len(Unwrap(y.value))))
             ELSE Ok(Spectrum(Unwrap(x.value), Unwrap(y.value),
                              CsvMetadata(headers, rec, x_idx, y_idx)))

\* load_csv's loop: the first failing record ends the load.
RECURSIVE CsvRows(_, _, _, _, _, _)
CsvRows(headers, records, row_no, x_idx, y_idx, acc) ==
    IF row_no >= Len(records) THEN Ok(from_spectra(acc))
    ELSE LET r == csv_row(headers, records[row_no + 1], row_no, x_idx, y_idx)
         IN  IF ~r.ok THEN r
             ELSE CsvRows(headers, records, row_no + 1, x_idx, y_idx,
                          Append(acc, Unwrap(r.value)))

\* load_csv (loader.rs 134-181)
load_csv(f) ==
    IF ~f.readable \/ f.format # "csv" THEN Err(IoFailure)
    ELSE LET headers == f.csv.headers
             x_idx == position(headers, NameX)
             y_idx == position(headers, NameY)
         IN  IF ~IsSome(x_idx) THEN Err(MissingRequiredColumn(NameX))
             ELSE IF ~IsSome(y_idx) THEN Err(MissingRequiredColumn(NameY))
             ELSE CsvRows(headers, f.csv.records, 0, Unwrap(x_idx), Unwrap(y_idx), <<>>)

(***************************************************************************)
(* The Parquet loader (loader.rs 223-356).  A Parquet document is its      *)
(* schema (fields with an Arrow data type, list fields with an inner type) *)
(* and its record batches; a batch is its rows, a row one cell per field.  *)
(* A cell is null, or a list of nullable floats, or a scalar carried in a  *)
(* MetadataValue-shaped record.                                            *)
(***************************************************************************)
PqField(name, dtype, inner) == [name |-> name, dtype |-> dtype, inner |-> inner]
PqElem(null, f) == [null |-> null, f |-> f]
PqCell(null, list, v) == [null |-> null, list |-> list, v |-> v]

\* format!("{:?}", data_type) of the other data types of the model.
DataTypeText(dtype) ==
    IF dtype = "Date32" THEN Str(<<"D", "a", "t", "e", "3", "2">>)
    ELSE Str(<<"L", "i", "s", "t">>)

\* extract_f64_list (loader.rs 283-317): a null slot, a column that is no
\* list and an inner type that is no float fail; a null element of the list
\* becomes NaN (v.unwrap_or(f64::NAN)).
extract_f64_list(field, cell) ==
    IF cell.null THEN Err(IoFailure)
    ELSE IF field.dtype \notin {"List", "LargeList"} THEN Err(IoFailure)
    ELSE IF field.inner \notin {"Float64", "Float32"} THEN Err(IoFailure)
    ELSE Ok([j \in 1..Len(cell.list) |->
                IF cell.list[j].null THEN NaN ELSE cell.list[j].f])

\* extract_metadata_value (loader.rs 320-356)
extract_metadata_value(field, cell) ==
    IF cell.null THEN MNull
    ELSE CASE field.dtype \in {"Utf8", "LargeUtf8"} -> MString(cell.v.s)
           [] field.dtype \in {"Int32", "Int64"} -> MInteger(cell.v.i)
           [] field.dtype \in {"Float32", "Float64"} -> MFloat(cell.v.f)
           [] field.dtype = "Boolean" -> MBool(cell.v.b)
           [] OTHER -> MString(DataTypeText(field.dtype))

\* schema.index_of(name): 0-based, the first field of that name.
index_of(schema, name) ==
    LET hits == {k \in 1..Len(schema) : schema[k].name = name}
    IN  IF hits = {} THEN None ELSE Some(SetMin(hits) - 1)

\* meta_cols and the metadata loop (loader.rs 248-271): every field but those
\* at x_idx and y_idx, inserted under its name, a later one replacing an
\* earlier one of the same name.
PqMetadata(schema, cells, x_idx, y_idx) ==
    LET cols == {k \in 1..Len(schema) : k - 1 # x_idx /\ k - 1 # y_idx}
    IN  [n \in {schema[k].name : k \in cols} |->
            LET k == SetMax({j \in cols : schema[j].name = n})
            IN  extract_metadata_value(schema[k], cells[k])]

\* The body of load_parquet's row loop (loader.rs 256-274) for the row at
\* index `row` of its batch.
pq_row(schema, cells, row, x_idx, y_idx) ==
    LET x == extract_f64_list(schema[x_idx + 1], cells[x_idx + 1])
        y == extract_f64_list(schema[y_idx + 1], cells[y_idx + 1])
    IN  IF ~x.ok THEN Err(ListReadFailure(row, NameX))
        ELSE IF ~y.ok THEN Err(ListReadFailure(row, NameY))
        ELSE IF Len(Unwrap(x.value)) # Len(Unwrap(y.value))
        THEN Err(ShapeMismatch(row, Len(Unwrap(x.value)), Len(Unwrap(y.value))))
        ELSE Ok(Spectrum(Unwrap(x.value), Unwrap(y.value),
                         PqMetadata(schema, cells, x_idx, y_idx)))

\* for row in 0..n_rows: the rows of one batch appended to the spectra; the
\* result holds the grown spectra or the first error.
RECURSIVE PqBatchRows(_, _, _, _, _, _)
PqBatchRows(schema, rows, row, x_idx, y_idx, acc) ==
    IF row >= Len(rows) THEN Ok(acc)
    ELSE LET r == pq_row(schema, rows[row + 1], row, x_idx, y_idx)
         IN  IF ~r.ok THEN r
             ELSE PqBatchRows(schema, rows, row + 1, x_idx, y_idx,
                              Append(acc, Unwrap(r.value)))

\* for batch_result in reader (loader.rs 231-275): x and y are located in
\* every batch, before its rows are read.
RECURSIVE PqBatches(_, _, _)
PqBatches(schema, batches, acc) ==
    IF batches = <<>> THEN Ok(from_spectra(acc))
    ELSE LET batch == Head(batches)
             x_idx == index_of(schema, NameX)
             y_idx == index_of(schema, NameY)
         IN  IF ~batch.ok THEN Err(ParseFailure)
             ELSE IF ~IsSome(x_idx) THEN Err(MissingRequiredColumn(NameX))
             ELSE IF ~IsSome(y_idx) THEN Err(MissingRequiredColumn(NameY))
             ELSE LET r == PqBatchRows(schema, batch.rows, 0, Unwrap(x_idx),
                                       Unwrap(y_idx), acc)
                  IN  IF ~r.ok THEN r
                      ELSE PqBatches(schema, Tail(batches), Unwrap(r.value))

\* load_parquet (loader.rs 223-278)
load_parquet(f) ==
    IF ~f.readable THEN Err(IoFailure)
    ELSE IF f.format # "parquet" \/ ~f.pq.valid THEN Err(ParseFailure)
    ELSE PqBatches(f.pq.schema, f.pq.batches, <<>>)

(***************************************************************************)
(* load_file (loader.rs 26-39): dispatch on the lower-cased extension.     *)
(***************************************************************************)
ExtJson == Str(<<"j", "s", "o", "n">>)
ExtCsv == Str(<<"c", "s", "v">>)
ExtParquet == Str(<<"p", "a", "r", "q", "u", "e", "t">>)
ExtPq == Str(<<"p", "q">>)

\* load_file that matches the extension as it is written.
load_file_case_sensitive(f) ==
    LET ext == IF IsSome(f.ext) THEN Unwrap(f.ext) ELSE <<>>
    IN  CASE ext = ExtParquet \/ ext = ExtPq -> load_parquet(f)
          [] ext = ExtJson -> load_json(f)
          [] ext = ExtCsv -> load_csv(f)
          [] OTHER -> Err(UnsupportedFormat(ext))

load_file(f) ==
    LET ext == to_ascii_lowercase(IF IsSome(f.ext) THEN Unwrap(f.ext) ELSE <<>>)
    IN  CASE ext = ExtParquet \/ ext = ExtPq -> load_parquet(f)
          [] ext = ExtJson -> load_json(f)
          [] ext = ExtCsv -> load_csv(f)
          [] OTHER -> Err(UnsupportedFormat(ext))

(***************************************************************************)
(* Display for MetadataValue (model.rs 73-84).                             *)
(***************************************************************************)
\* The decimal digits of a natural number.
RECURSIVE NatText(_)
NatText(n) == IF n < 10 THEN <<Chr("0") + n>> ELSE Append(NatText(n \div 10), Chr("0") + (n % 10))

\* format!("{i}")
IntText(i) == IF i < 0 THEN <<Chr("-")>> \o NatText(0 - i) ELSE NatText(i)

\* format!("{v:.4}") of a float whose magnitude is in tenths.
FloatText(f) ==
    IF f.mag = NaNMag THEN Str(<<"N", "a", "N">>)
    ELSE (IF f.neg THEN <<Chr("-")>> ELSE <<>>)
         \o (IF f.mag = InfMag THEN Str(<<"i", "n", "f">>)
             ELSE NatText(f.mag \div 10) \o <<Chr("."), Chr("0") + (f.mag % 10)>>
                  \o Str(<<"0", "0", "0">>))

to_string(v) ==
    CASE v.tag = "String" -> v.s
      [] v.tag = "Integer" -> IntText(v.i)
      [] v.tag = "Float" -> FloatText(v.f)
      [] v.tag = "Bool" -> IF v.b THEN Str(<<"t", "r", "u", "e">>)
                           ELSE Str(<<"f", "a", "l", "s", "e">>)
      [] v.tag = "Date" -> v.s
      [] OTHER -> Str(<<"<", "n", "u", "l", "l", ">">>)

(***************************************************************************)
(* ColorMap (color.rs).  A Color32 is its red, green and blue bytes.       *)
(***************************************************************************)
Color32(r, g, b) == [r |-> r, g |-> g, b |-> b]

\* Color32::GRAY
GRAY == Color32(160, 160, 160)

\* (channel * 255.0) as u8 for the channel m + C * num / n of the HSL colour
\* of saturation 0.75 and lightness 0.55: chroma C = 0.675, m = 0.2125, in
\* ten-thousandths of a byte.
ChannelByte(num, n) == (541875 * n + 1721250 * num) \div (10000 * n)

\* Hsl::new(i / n * 360, 0.75, 0.55) converted to Srgb and to Color32: the
\* sector of the hue is 6i / n and the middle channel rises or falls with
\* the position in the sector.
HslToColor32(i, n) ==
    LET sector == (6 * i) \div n
        pos == (6 * i) % (2 * n)
        x == IF pos <= n THEN pos ELSE 2 * n - pos
        hi == ChannelByte(n, n)
        mid == ChannelByte(x, n)
        lo == ChannelByte(0, n)
    IN  CASE sector = 0 -> Color32(hi, mid, lo)
          [] sector = 1 -> Color32(mid, hi, lo)
          [] sector = 2 -> Color32(lo, hi, mid)
          [] sector = 3 -> Color32(lo, mid, hi)
          [] sector = 4 -> Color32(mid, lo, hi)
          [] OTHER -> Color32(hi, lo, mid)

\* generate_palette (color.rs 13-29): hue = i / n * 360 for i in 0..n.
generate_palette(n) == [k \in 1..n |-> HslToColor32(k - 1, n)]

\* ColorMap::new that hands the palette out from the largest value down.
ColorMapNew_reversed(column, unique_values) ==
    LET palette == generate_palette(Cardinality(unique_values))
        sorted == SortedValues(unique_values)
    IN  [column |-> column,
         mapping |-> [v \in unique_values |->
                        palette[Len(sorted) + 1 - (CHOOSE k \in 1..Len(sorted) : sorted[k] = v)]],
         default_color |-> GRAY]

\* ColorMap::new (color.rs 45-58): the values in ascending order zipped with
\* the palette.
ColorMapNew(column, unique_values) ==
    LET palette == generate_palette(Cardinality(unique_values))
        sorted == SortedValues(unique_values)
    IN  [column |-> column,
         mapping |-> [v \in unique_values |->
                        palette[CHOOSE k \in 1..Len(sorted) : sorted[k] = v]],
         default_color |-> GRAY]

\* color_for (color.rs 61-66): BTreeMap::get finds the key that compares
\* Equal to the value.
color_for(cm, value) ==
    LET hits == {k \in DOMAIN cm.mapping : cmp(k, value) = "Equal"}
    IN  IF hits = {} THEN cm.default_color ELSE cm.mapping[CHOOSE k \in hits : TRUE]

\* legend_entries (color.rs 69-74): the entries of the map in key order.
legend_entries(cm) ==
    LET sorted == SortedValues(DOMAIN cm.mapping)
    IN  [k \in 1..Len(sorted) |-> <<to_string(sorted[k]), cm.mapping[sorted[k]]>>]

(***************************************************************************)
(* AppState (state.rs): the pure parts of its methods.                     *)
(***************************************************************************)
\* The elements of a sequence.
Range(q) == {q[i] : i \in DOMAIN q}

\* rebuild_color_map (state.rs 65-72)
rebuild_color_map(cc, ds) ==
    IF IsSome(cc) /\ Unwrap(cc) \in DOMAIN ds.unique_values
    THEN Some(ColorMapNew(Unwrap(cc), ds.unique_values[Unwrap(cc)]))
    ELSE None

\* refilter that leaves the cached indices as they are.
refilter_stale(ds, flt, vis) == vis

\* refilter (state.rs 75-79): the new visible_indices under filters flt.
refilter(ds, flt, vis) == IF IsSome(ds) THEN filtered_indices(Unwrap(ds), flt) ELSE vis

\* filters.entry(column).or_default()
EntryOrDefault(flt, column) ==
    IF column \in DOMAIN flt THEN flt
    ELSE [c \in DOMAIN flt \cup {column} |-> IF c = column THEN {} ELSE flt[c]]

\* filters.insert(column, selection)
MapInsert(flt, column, selection) ==
    [c \in DOMAIN flt \cup {column} |-> IF c = column THEN selection ELSE flt[c]]

\* BTreeSet::remove
BTreeSetRemove(S, v) == {e \in S : cmp(e, v) # "Equal"}

\* The filters after toggle_filter_value (state.rs 91-98).
toggled(flt, column, value) ==
    LET f1 == EntryOrDefault(flt, column)
    IN  [f1 EXCEPT ![column] = IF BTreeSetContains(@, value)
                               THEN BTreeSetRemove(@, value)
                               ELSE BTreeSetInsert(@, value)]

\* The filters after select_none (state.rs 112-115).
select_none_filters(flt, column) == MapInsert(flt, column, {})

\* (0..dataset.len()).collect()
AllIndices(ds) == [k \in 1..Len(ds.spectra) |-> k - 1]

\* column_names.first().cloned()
FirstColumn(ds) == IF ds.column_names = <<>> THEN None ELSE Some(ds.column_names[1])

(***************************************************************************)
(* Bounds and input sets.                                                  *)
(***************************************************************************)
MaxInt == 1
MaxRows == 2

ColS == Str(<<"s">>)
ColT == Str(<<"t">>)
TextA == Str(<<"A">>)
TextB == Str(<<"B">>)

\* The values compared: every variant, both zeros, both infinities, NaN of
\* either sign, and texts that occur as a String and as a Date.
CmpTexts == {<<>>, TextA, TextB, Str(<<"A", "B">>)}
CmpValues ==
    {MNull} \cup {MBool(b) : b \in BOOLEAN}
            \cup {MInteger(i) : i \in (0 - MaxInt)..MaxInt}
            \cup {MFloat(f) : f \in F64s}
            \cup {MString(s) : s \in CmpTexts}
            \cup {MDate(s) : s \in CmpTexts}

\* The values stored in rows and selected in filters.
CellValues == {MNull, MString(TextA), MString(TextB)}
Columns == {ColS, ColT}

\* A row's metadata: any subset of the columns, any value in each.
Metadatas == UNION {[D -> CellValues] : D \in SUBSET Columns}
OneF == IntToF64(1)
Rows == {Spectrum(<<OneF>>, <<OneF>>, m) : m \in Metadatas}
RowSeqs == UNION {[1..n -> Rows] : n \in 0..MaxRows}

\* Any FilterState over the columns: a column is absent or has any selection.
FilterStates == UNION {[D -> SUBSET CellValues] : D \in SUBSET Columns}

(***************************************************************************)
(* The files handed to load_file.  A file is its extension (None when the  *)
(* path has none), whether it can be read, and its content as the format's *)
(* parser delivers it.                                                     *)
(***************************************************************************)
MaxFileRows == 2

NoJson == [valid |-> FALSE, is_array |-> FALSE, records |-> <<>>]
NoCsv == [headers |-> <<>>, records |-> <<>>]
NoPq == [valid |-> FALSE, schema |-> <<>>, batches |-> <<>>]

JsonFile(ext, doc) ==
    [ext |-> ext, readable |-> TRUE, format |-> "json", json |-> doc, csv |-> NoCsv, pq |-> NoPq]
CsvFile(ext, doc) ==
    [ext |-> ext, readable |-> TRUE, format |-> "csv", json |-> NoJson, csv |-> doc, pq |-> NoPq]
PqFile(ext, doc) ==
    [ext |-> ext, readable |-> TRUE, format |-> "parquet", json |-> NoJson, csv |-> NoCsv, pq |-> doc]
Unreadable(f) == [f EXCEPT !.readable = FALSE]

SeqsUpTo(S, n) == UNION {[1..k -> S] : k \in 0..n}

\* ---- JSON ----
JInts(q) == JArray([k \in 1..Len(q) |-> JInt(q[k])])

\* A record with the given x, y and s members (None: the key is missing).
JsonRecord(x, y, s) ==
    [object |-> TRUE,
     fields |-> [k \in (IF IsSome(x) THEN {NameX} ELSE {})
                        \cup (IF IsSome(y) THEN {NameY} ELSE {})
                        \cup (IF IsSome(s) THEN {ColS} ELSE {}) |->
                    IF k = NameX THEN Unwrap(x) ELSE IF k = NameY THEN Unwrap(y)
                    ELSE Unwrap(s)]]
JsonNotObject == [object |-> FALSE, fields |-> EmptyMap]

\* The (x, y) members of the records: well-formed pairs, pairs of unequal
\* lengths, elements that are no numbers, a missing key, a member that is
\* no array.
JsonXYs ==
    {<<Some(JInts(<<1, 2>>)), Some(JInts(<<3, 4>>))>>,
     <<Some(JInts(<<>>)), Some(JInts(<<>>))>>,
     <<Some(JArray(<<JFloat(F64(FALSE, 15))>>)), Some(JInts(<<5>>))>>,
     <<Some(JInts(<<1, 2, 3>>)), Some(JInts(<<4, 5>>))>>,
     <<Some(JInts(<<1, 2>>)), Some(JInts(<<>>))>>,
     <<Some(JArray(<<JInt(1), JString(TextA)>>)), Some(JInts(<<3, 4>>))>>,
     <<Some(JInts(<<1, 2>>)), Some(JArray(<<JNull>>))>>,
     <<None, Some(JInts(<<3, 4>>))>>,
     <<Some(JInts(<<1, 2>>)), Some(JInt(3))>>}
JsonCells == {None, Some(JString(TextA)), Some(JString(TextB)), Some(JNull)}
JsonRecords ==
    {JsonRecord(xy[1], xy[2], s) : xy \in JsonXYs, s \in JsonCells} \cup {JsonNotObject}
JsonDoc(records) == [valid |-> TRUE, is_array |-> TRUE, records |-> records]

\* The three records of the scenario:
\* [{x:[1,2],y:[3,4],s:"A"}, {x:[1,2],y:[5,6],s:"B"}, {x:[1,2],y:[7,8]}]
ScenarioJson ==
    JsonFile(Some(ExtJson),
             JsonDoc(<<JsonRecord(Some(JInts(<<1, 2>>)), Some(JInts(<<3, 4>>)), Some(JString(TextA))),
                       JsonRecord(Some(JInts(<<1, 2>>)), Some(JInts(<<5, 6>>)), Some(JString(TextB))),
                       JsonRecord(Some(JInts(<<1, 2>>)), Some(JInts(<<7, 8>>)), None)>>))

JsonFiles(n) ==
    {JsonFile(Some(ExtJson), JsonDoc(rs)) : rs \in SeqsUpTo(JsonRecords, n)}
    \cup {ScenarioJson,
          JsonFile(Some(Str(<<"J", "S", "O", "N">>)), JsonDoc(<<>>)),
          JsonFile(Some(ExtJson), [valid |-> TRUE, is_array |-> FALSE, records |-> <<>>]),
          JsonFile(Some(ExtJson), NoJson),
          Unreadable(JsonFile(Some(ExtJson), JsonDoc(<<>>)))}

\* ---- CSV ----
CsvXYs ==
    {<<Str(<<"1", ";", "2">>), Str(<<"3", ";", "4">>)>>,
     <<Str(<<" ", "6", " ", ";", "7">>), Str(<<"4", ";", "5">>)>>,
     <<Str(<<"1", ";", "2", ";", "3">>), Str(<<"4", ";", "5">>)>>,
     <<Str(<<"4", ";", "5">>), Str(<<"7">>)>>,
     <<Str(<<"1", ";", "a">>), Str(<<"4", ";", "5">>)>>,
     <<Str(<<"4", ";", "5">>), <<>>>>,
     <<Str(<<"1", ";", "a", ";", "3">>), Str(<<"4", ";", "5">>)>>}
CsvCells == {<<>>, TextA, Str(<<"1", ".", "5">>)}
CsvHeaders ==
    {<<NameX, NameY, ColS>>, <<ColS, NameY, NameX>>, <<NameX, NameY>>,
     <<NameX, ColS>>, <<ColS, NameY>>, <<NameX, NameY, NameX, ColS, ColS>>}

\* The record of a header row: the x text under every x, the y text under
\* every y, the cell under every other header.
CsvRecord(h, xy, cell) ==
    [k \in 1..Len(h) |-> IF h[k] = NameX THEN xy[1] ELSE IF h[k] = NameY THEN xy[2] ELSE cell]
CsvRecords(h) ==
    {CsvRecord(h, xy, cell) : xy \in CsvXYs, cell \in CsvCells}
    \cup {<<Str(<<"1", ";", "2">>)>>}

CsvFiles(n) ==
    {CsvFile(Some(ExtCsv), [headers |-> hr[1], records |-> hr[2]]) :
        hr \in UNION {{<<h, rs>> : rs \in SeqsUpTo(CsvRecords(h), n)} : h \in CsvHeaders}}
    \cup {CsvFile(Some(Str(<<"C", "s", "v">>)), [headers |-> <<NameX, NameY>>, records |-> <<>>]),
          CsvFile(Some(ExtCsv), NoCsv),
          Unreadable(CsvFile(Some(ExtCsv), NoCsv))}

\* ---- Parquet ----
PqSchemas ==
    {<<PqField(NameX, "List", "Float64"), PqField(NameY, "List", "Float64"),
       PqField(ColS, "Utf8", "")>>,
     <<PqField(ColS, "Date32", ""), PqField(NameY, "LargeList", "Float32"),
       PqField(NameX, "LargeList", "Float64")>>,
     <<PqField(NameX, "Utf8", ""), PqField(NameY, "List", "Float64")>>,
     <<PqField(NameX, "List", "Int64"), PqField(NameY, "List", "Float64")>>,
     <<PqField(NameX, "List", "Float64"), PqField(ColS, "Utf8", "")>>,
     <<PqField(ColS, "Utf8", ""), PqField(NameY, "List", "Float64")>>}

PqList(q) == PqCell(FALSE, [k \in 1..Len(q) |-> PqElem(FALSE, IntToF64(q[k]))], MNull)
PqNullCell == PqCell(TRUE, <<>>, MNull)
PqScalar(v) == PqCell(FALSE, <<>>, v)

\* The (x, y) cells of the rows: well-formed pairs, unequal lengths, a null
\* list slot, a null element inside a list.
PqXYs ==
    {<<PqList(<<1, 2>>), PqList(<<3, 4>>)>>,
     <<PqList(<<>>), PqList(<<>>)>>,
     <<PqList(<<1, 2, 3>>), PqList(<<4, 5>>)>>,
     <<PqNullCell, PqList(<<3, 4>>)>>,
     <<PqCell(FALSE, <<PqElem(FALSE, IntToF64(1)), PqElem(TRUE, F64(FALSE, 0))>>, MNull),
       PqList(<<3, 4>>)>>,
     <<PqList(<<3, 4>>), PqCell(FALSE, <<PqElem(TRUE, F64(FALSE, 0))>>, MNull)>>}
PqCells == {PqNullCell, PqScalar(MString(TextA))}
PqRow(schema, xy, cell) ==
    [k \in 1..Len(schema) |->
        IF schema[k].name = NameX THEN xy[1]
        ELSE IF schema[k].name = NameY THEN xy[2] ELSE cell]
PqRows(schema) == {PqRow(schema, xy, cell) : xy \in PqXYs, cell \in PqCells}

\* The rows of a file delivered in one batch, or cut into two batches at any
\* place (an empty batch included), or followed by a batch that fails to
\* read; a file of no rows may also have no batch at all.
PqBatch(rows) == [ok |-> TRUE, rows |-> rows]
PqBadBatch == [ok |-> FALSE, rows |-> <<>>]
PqBatchings(rows) ==
    {<<PqBatch(rows)>>, <<PqBatch(rows), PqBadBatch>>}
    \cup {<<PqBatch(SubSeq(rows, 1, k)), PqBatch(SubSeq(rows, k + 1, Len(rows)))>> :
             k \in 0..Len(rows)}
    \cup (IF rows = <<>> THEN {<<>>} ELSE {})
PqDocs(schema, n) ==
    {[valid |-> TRUE, schema |-> schema, batches |-> bs] :
        bs \in UNION {PqBatchings(rows) : rows \in SeqsUpTo(PqRows(schema), n)}}

PqFiles(n) ==
    {PqFile(Some(ExtParquet), doc) : doc \in UNION {PqDocs(schema, n) : schema \in PqSchemas}}
    \cup {PqFile(Some(ExtPq), [valid |-> TRUE, schema |-> <<>>, batches |-> <<>>]),
          PqFile(Some(Str(<<"P", "q">>)), NoPq),
          Unreadable(PqFile(Some(ExtPq), NoPq))}

\* Files of no supported extension.
OtherFiles ==
    {JsonFile(Some(Str(<<"t", "x", "t">>)), JsonDoc(<<>>)),
     JsonFile(None, JsonDoc(<<>>)),
     CsvFile(Some(Str(<<"j", "s">>)), NoCsv),
     Unreadable(JsonFile(Some(Str(<<"T", "x", "t">>)), JsonDoc(<<>>))),
     Unreadable(JsonFile(None, JsonDoc(<<>>))),
     JsonFile(Some(Str(<<"j", "s", "o", "n", "l">>)), JsonDoc(<<>>)),
     JsonFile(Some(<<>>), JsonDoc(<<>>)),
     PqFile(Some(Str(<<"P", "A", "R", "Q", "U", "E", "T">>)),
            [valid |-> TRUE, schema |-> <<>>, batches |-> <<>>]),
     CsvFile(Some(Str(<<"c", "S", "V">>)), [headers |-> <<NameX, NameY>>, records |-> <<>>]),
     CsvFile(Some(Str(<<"J", "s", "o", "n">>)), [headers |-> <<NameX, NameY>>, records |-> <<>>]),
     JsonFile(Some(Str(<<"C", "S", "V">>)), JsonDoc(<<>>)),
     JsonFile(Some(Str(<<"p", "Q">>)), JsonDoc(<<>>))}

\* The files of at most n rows.
Files(n) == JsonFiles(n) \cup CsvFiles(n) \cup PqFiles(n) \cup OtherFiles

(***************************************************************************)
(* What the variables of the other components hold while one is checked.   *)
(***************************************************************************)
CmpIdle == lhs = MNull /\ rhs = MNull /\ cmp_result = None
GuessIdle == cell_text = <<>> /\ guessed = None
ColorIdle == color_values = {}
LoadIdle == file = None /\ loaded = None
AppInit ==
    /\ dataset = None
    /\ filters = EmptyMap
    /\ visible_indices = <<>>
    /\ color_column = None
    /\ color_map = None
    /\ status_message = None
    /\ loading = FALSE

(***************************************************************************)
(* SpecCmp: two values are drawn and compared with Ord::cmp, both ways,    *)
(* and with ==.                                                            *)
(***************************************************************************)
InitCmp ==
    /\ lhs \in CmpValues
    /\ rhs \in CmpValues
    /\ cmp_result = None
    /\ spectra = <<>>
    /\ LoadIdle
    /\ GuessIdle
    /\ ColorIdle
    /\ AppInit
    /\ last_op = "init"

Compare ==
    /\ cmp_result = None
    /\ cmp_result' = Some([lr |-> cmp(lhs, rhs), rl |-> cmp(rhs, lhs),
                           eq |-> eq(lhs, rhs)])
    /\ last_op' = "cmp"
    /\ UNCHANGED <<lhs, rhs, spectra, loadVars, appVars, guessVars, color_values>>

NextCmp == Compare

SpecCmp == InitCmp /\ [][NextCmp]_vars

(***************************************************************************)
(* SpecFilter: rows and a FilterState are drawn; from_spectra builds the   *)
(* dataset and filtered_indices is applied to it.                          *)
(***************************************************************************)
InitFilter ==
    /\ spectra \in RowSeqs
    /\ filters \in FilterStates
    /\ dataset = None
    /\ visible_indices = <<>>
    /\ color_column = None
    /\ color_map = None
    /\ status_message = None
    /\ loading = FALSE
    /\ CmpIdle
    /\ GuessIdle
    /\ ColorIdle
    /\ LoadIdle
    /\ last_op = "init"

FromSpectra ==
    /\ last_op = "init"
    /\ dataset' = Some(from_spectra(spectra))
    /\ last_op' = "from_spectra"
    /\ UNCHANGED <<spectra, filters, visible_indices, color_column, color_map,
                   status_message, loading, cmpVars, guessVars, color_values, loadVars>>

FilteredIndices ==
    /\ last_op = "from_spectra"
    /\ visible_indices' = filtered_indices(Unwrap(dataset), filters)
    /\ last_op' = "filtered_indices"
    /\ UNCHANGED <<spectra, dataset, filters, color_column, color_map,
                   status_message, loading, cmpVars, guessVars, color_values, loadVars>>

NextFilter == FromSpectra \/ FilteredIndices

SpecFilter == InitFilter /\ [][NextFilter]_vars

(***************************************************************************)
(* SpecGuess: the text of a CSV cell is drawn and guess_metadata_type is   *)
(* applied to it.                                                          *)
(***************************************************************************)
MaxCellLen == 2

CellAlphabet == {Chr("0"), Chr("1"), Chr("-"), Chr("+"), Chr("."), Chr("e"), Chr("t"), Chr(" ")}

\* Every text of the alphabet up to MaxCellLen characters, and texts around
\* the literals and the number grammar.
CellTexts ==
    SeqsUpTo(CellAlphabet, MaxCellLen)
    \cup {Str(<<"t", "r", "u", "e">>), Str(<<"f", "a", "l", "s", "e">>),
          Str(<<"T", "r", "u", "e">>), Str(<<"T", "R", "U", "E">>),
          Str(<<"F", "A", "L", "S", "E">>), Str(<<"t", "r", "u">>),
          Str(<<"t", "r", "u", "e", " ">>), Str(<<" ", "f", "a", "l", "s", "e">>),
          Str(<<"y", "e", "s">>), Str(<<"A">>), Str(<<"1", ";", "2">>),
          Str(<<"1", ".", "5">>), Str(<<"-", "1", ".", "5">>), Str(<<"1", ".", "5", ".">>),
          Str(<<"1", "e", "1">>), Str(<<"1", "E", "1">>), Str(<<"1", "e", "+", "1">>),
          Str(<<"1", ".", "e", "1">>), Str(<<"1", "e", "1", "e">>),
          Str(<<"i", "n", "f">>), Str(<<"-", "I", "n", "f">>),
          Str(<<"i", "n", "f", "i", "n", "i", "t", "y">>), Str(<<"i", "n", "f", "i">>),
          Str(<<"N", "a", "N">>), Str(<<"n", "a", "n">>), Str(<<"n", "a">>),
          Str(<<"0", "0", "7">>), Str(<<"-", "0">>), Str(<<"1", "2", "3">>),
          Str(<<"1", "_", "0">>), Str(<<"0", "x", "1">>), Str(<<"1", ",", "5">>),
          I64MinDigits, <<Chr("+")>> \o I64MinDigits, <<Chr("-")>> \o I64MinDigits \o <<Chr("0")>>}

InitGuess ==
    /\ cell_text \in CellTexts
    /\ guessed = None
    /\ spectra = <<>>
    /\ CmpIdle
    /\ ColorIdle
    /\ LoadIdle
    /\ AppInit
    /\ last_op = "init"

Guess ==
    /\ guessed = None
    /\ guessed' = Some(guess_metadata_type(cell_text))
    /\ last_op' = "guess_metadata_type"
    /\ UNCHANGED <<cell_text, spectra, cmpVars, color_values, loadVars, appVars>>

NextGuess == Guess

SpecGuess == InitGuess /\ [][NextGuess]_vars

(***************************************************************************)
(* SpecColor: a column name and a set of distinct values are drawn and     *)
(* ColorMap::new builds the map, once and once more.                       *)
(***************************************************************************)
MaxColors == 3

\* The values maps are built from and looked up with.
ColorValues ==
    {MNull, MBool(FALSE), MBool(TRUE), MInteger(1), MFloat(F64(FALSE, 0)),
     MFloat(F64(TRUE, 0)), MFloat(NaN), MString(TextA), MString(Str(<<"1">>)), MDate(TextA)}

InitColor ==
    /\ color_values \in {S \in SUBSET ColorValues : Cardinality(S) <= MaxColors}
    /\ color_column \in {Some(c) : c \in Columns}
    /\ color_map = None
    /\ dataset = None
    /\ filters = EmptyMap
    /\ visible_indices = <<>>
    /\ status_message = None
    /\ loading = FALSE
    /\ spectra = <<>>
    /\ CmpIdle
    /\ GuessIdle
    /\ LoadIdle
    /\ last_op = "init"

ColorMapBuild ==
    /\ color_map' = Some(ColorMapNew(Unwrap(color_column), color_values))
    /\ last_op' = IF color_map = None THEN "ColorMap::new" ELSE "ColorMap::new again"
    /\ UNCHANGED <<color_values, color_column, dataset, filters, visible_indices,
                   status_message, loading, spectra, cmpVars, guessVars, loadVars>>

NextColor == ColorMapBuild

SpecColor == InitColor /\ [][NextColor]_vars

(***************************************************************************)
(* SpecLoad: a file is drawn and loaded with load_file.                    *)
(***************************************************************************)
InitLoad ==
    /\ file = None
    /\ loaded = None
    /\ spectra = <<>>
    /\ CmpIdle
    /\ GuessIdle
    /\ ColorIdle
    /\ AppInit
    /\ last_op = "init"

PickFile ==
    /\ file = None
    /\ \E f \in Files(MaxFileRows) : file' = Some(f)
    /\ last_op' = "pick_file"
    /\ UNCHANGED <<loaded, spectra, cmpVars, guessVars, color_values, appVars>>

LoadFile ==
    /\ IsSome(file)
    /\ loaded = None
    /\ loaded' = Some(load_file(Unwrap(file)))
    /\ last_op' = "load_file"
    /\ UNCHANGED <<file, spectra, cmpVars, guessVars, color_values, appVars>>

NextLoad == PickFile \/ LoadFile

SpecLoad == InitLoad /\ [][NextLoad]_vars

(***************************************************************************)
(* Spec: the application.  Files are opened through the file dialog and    *)
(* the AppState methods and the side panel are driven by the user.         *)
(***************************************************************************)
\* The CSV file of the scenario: one record with x = "1;2;3", y = "4;5".
ScenarioCsv ==
    CsvFile(Some(ExtCsv),
            [headers |-> <<NameX, NameY>>,
             records |-> <<<<Str(<<"1", ";", "2", ";", "3">>), Str(<<"4", ";", "5">>)>>>>])

\* The files the user opens: the scenario, a CSV file with an empty cell, an
\* empty JSON array, a CSV file that fails to load, an unsupported file.
AppFiles ==
    {ScenarioJson,
     CsvFile(Some(ExtCsv),
             [headers |-> <<NameX, NameY, ColS>>,
              records |-> <<<<Str(<<"1", ";", "2">>), Str(<<"3", ";", "4">>), TextA>>,
                            <<Str(<<"1", ";", "2">>), Str(<<"3", ";", "4">>), <<>>>>>>]),
     JsonFile(Some(ExtJson), JsonDoc(<<>>)),
     ScenarioCsv,
     JsonFile(Some(Str(<<"t", "x", "t">>)), JsonDoc(<<>>))}

\* load_file (loader.rs 26-39) on each of these files.
AppLoads == [f \in AppFiles |-> load_file(f)]

\* AppState::default()
Init ==
    /\ AppInit
    /\ file = None
    /\ loaded = None
    /\ spectra = <<>>
    /\ CmpIdle
    /\ GuessIdle
    /\ ColorIdle
    /\ last_op = "init"

\* set_dataset that keeps the selections made on columns the new dataset
\* also has.
set_dataset_keeping_selections(d) ==
    /\ filters' = [c \in DOMAIN d.unique_values |->
                     IF c \in DOMAIN filters THEN filters[c] ELSE d.unique_values[c]]
    /\ visible_indices' = AllIndices(d)
    /\ color_column' = FirstColumn(d)
    /\ color_map' = rebuild_color_map(FirstColumn(d), d)
    /\ dataset' = Some(d)
    /\ status_message' = None
    /\ loading' = FALSE

\* set_dataset (state.rs 51-62)
set_dataset(d) ==
    /\ filters' = init_filter_state(d)
    /\ visible_indices' = AllIndices(d)
    /\ color_column' = FirstColumn(d)
    /\ color_map' = rebuild_color_map(FirstColumn(d), d)
    /\ dataset' = Some(d)
    /\ status_message' = None
    /\ loading' = FALSE

\* An Err arm that drops the dataset in the application.
load_failed_clearing(e) ==
    /\ status_message' = Some(e)
    /\ loading' = FALSE
    /\ dataset' = None
    /\ visible_indices' = <<>>
    /\ color_map' = None
    /\ UNCHANGED <<filters, color_column>>

\* The Err arm of open_file_dialog (panels.rs 187-191)
load_failed(e) ==
    /\ status_message' = Some(e)
    /\ loading' = FALSE
    /\ UNCHANGED <<dataset, filters, visible_indices, color_column, color_map>>

\* open_file_dialog (panels.rs 167-194) with a file picked: the load, then
\* set_dataset or the error message.
OpenFileDialog(f) ==
    LET result == AppLoads[f]
    IN  /\ file' = Some(f)
        /\ loaded' = Some(result)
        /\ IF result.ok
           THEN set_dataset(Unwrap(result.value))
           ELSE load_failed(Unwrap(result.err))
        /\ last_op' = "open_file_dialog"
        /\ UNCHANGED <<spectra, cmpVars, guessVars, color_values>>

\* set_color_column that keeps the map it finds.
SetColorColumn_keeping_map(col) ==
    /\ color_column' = Some(col)
    /\ color_map' = color_map
    /\ last_op' = "set_color_column"
    /\ UNCHANGED <<dataset, filters, visible_indices, status_message, loading,
                   spectra, loadVars, cmpVars, guessVars, color_values>>

\* set_color_column (state.rs 82-88)
SetColorColumn(col) ==
    /\ color_column' = Some(col)
    /\ color_map' = IF IsSome(dataset) THEN rebuild_color_map(Some(col), Unwrap(dataset))
                    ELSE color_map
    /\ last_op' = "set_color_column"
    /\ UNCHANGED <<dataset, filters, visible_indices, status_message, loading,
                   spectra, loadVars, cmpVars, guessVars, color_values>>

\* toggle_filter_value (state.rs 91-99)
ToggleFilterValue(column, value) ==
    /\ filters' = toggled(filters, column, value)
    /\ visible_indices' = refilter(dataset, filters', visible_indices)
    /\ last_op' = "toggle_filter_value"
    /\ UNCHANGED <<dataset, color_column, color_map, status_message, loading,
                   spectra, loadVars, cmpVars, guessVars, color_values>>

\* select_all (state.rs 102-109)
SelectAll(column) ==
    /\ IF IsSome(dataset) /\ column \in DOMAIN Unwrap(dataset).unique_values
       THEN /\ filters' = MapInsert(filters, column, Unwrap(dataset).unique_values[column])
            /\ visible_indices' = refilter(dataset, filters', visible_indices)
       ELSE UNCHANGED <<filters, visible_indices>>
    /\ last_op' = "select_all"
    /\ UNCHANGED <<dataset, color_column, color_map, status_message, loading,
                   spectra, loadVars, cmpVars, guessVars, color_values>>

\* select_none (state.rs 112-115)
SelectNone(column) ==
    /\ filters' = select_none_filters(filters, column)
    /\ visible_indices' = refilter(dataset, filters', visible_indices)
    /\ last_op' = "select_none"
    /\ UNCHANGED <<dataset, color_column, color_map, status_message, loading,
                   spectra, loadVars, cmpVars, guessVars, color_values>>

\* refilter (state.rs 75-79) called on its own.
Refilter ==
    /\ visible_indices' = refilter(dataset, filters, visible_indices)
    /\ last_op' = "refilter"
    /\ UNCHANGED <<dataset, filters, color_column, color_map, status_message, loading,
                   spectra, loadVars, cmpVars, guessVars, color_values>>

\* The user's input to one frame of the side panel: nothing, a click in the
\* colour-by list, an All or None button, or a checkbox.
PanelEvents(ds) ==
    {[kind |-> "idle", col |-> <<>>, val |-> MNull]}
    \cup {[kind |-> k, col |-> c, val |-> MNull] :
             k \in {"color", "all", "none"}, c \in Range(ds.column_names)}
    \cup UNION {{[kind |-> "check", col |-> c, val |-> v] : v \in ds.unique_values[c]} :
                   c \in Range(ds.column_names)}

\* filters.entry(col).or_default() for every column of the dataset.
RECURSIVE WithEntries(_, _)
WithEntries(flt, cols) ==
    IF cols = <<>> THEN flt ELSE WithEntries(EntryOrDefault(flt, Head(cols)), Tail(cols))

\* side_panel (panels.rs 10-122): one frame with the user's input ev.
SidePanel ==
    /\ IsSome(dataset)
    /\ \E ev \in PanelEvents(Unwrap(dataset)) :
          LET ds == Unwrap(dataset)
              cc == IF ev.kind = "color" THEN Some(ev.col) ELSE color_column
              f1 == WithEntries(filters, ds.column_names)
              f2 == CASE ev.kind = "all" -> MapInsert(f1, ev.col, ds.unique_values[ev.col])
                      [] ev.kind = "none" -> MapInsert(f1, ev.col, {})
                      [] ev.kind = "check" -> toggled(f1, ev.col, ev.val)
                      [] OTHER -> f1
          IN  /\ color_column' = cc
              /\ color_map' = IF ev.kind = "color" THEN rebuild_color_map(cc, ds) ELSE color_map
              /\ filters' = f2
              /\ visible_indices' = filtered_indices(ds, f2)
    /\ last_op' = "side_panel"
    /\ UNCHANGED <<dataset, status_message, loading, spectra, loadVars, cmpVars, guessVars, color_values>>

Next ==
    \/ \E f \in AppFiles : OpenFileDialog(f)
    \/ \E c \in Columns : SetColorColumn(c)
    \/ \E c \in Columns, v \in CellValues : ToggleFilterValue(c, v)
    \/ \E c \in Columns : SelectAll(c)
    \/ \E c \in Columns : SelectNone(c)
    \/ Refilter
    \/ SidePanel

Spec == Init /\ [][Next]_vars

(***************************************************************************)
(* Helpers of the properties.                                              *)
(***************************************************************************)
StrictlyIncreasing(q) == \A i \in 1..(Len(q) - 1) : q[i] < q[i + 1]
NamesAscending(q) == \A i \in 1..(Len(q) - 1) : StrCmp(q[i], q[i + 1]) = "Less"
CountTrue(a, b, c) == BoolInt(a) + BoolInt(b) + BoolInt(c)

\* a precedes b in dictionary order: b extends a, or the first byte in which
\* they differ is smaller in a.
LexLess(a, b) ==
    \E k \in 0..Len(a) :
        /\ k <= Len(b)
        /\ \A j \in 1..k : a[j] = b[j]
        /\ \/ k = Len(a) /\ k < Len(b)
           \/ k < Len(a) /\ k < Len(b) /\ a[k + 1] < b[k + 1]

\* The number line position of a float that is not NaN (the magnitudes of
\* the model grow with the value; both zeros are 0).
NumVal(f) == IF f.neg THEN 0 - f.mag ELSE f.mag

(***************************************************************************)
(* C1 -- MetadataValue comparison is a strict total order that agrees with *)
(* equality: for any two values exactly one of a < b, a == b, b < a holds  *)
(* (< is Ord::cmp, == the derived PartialEq), NaN included.                *)
(***************************************************************************)
C1_ExactlyOneOfLessEqualGreater ==
    IsSome(cmp_result) =>
        LET r == Unwrap(cmp_result)
        IN  CountTrue(r.lr = "Less", r.eq, r.rl = "Less") = 1

(***************************************************************************)
(* C2 -- values of different variants are ordered by the variant rank      *)
(* alone and are never equal; within a variant the payload decides.        *)
(***************************************************************************)
\* The rank as the claim states it: String and Date share one rank.
ClaimedRank(v) ==
    CASE v.tag = "Null" -> 0 [] v.tag = "Bool" -> 1 [] v.tag = "Integer" -> 2
      [] v.tag = "Float" -> 3 [] v.tag \in {"String", "Date"} -> 4

\* The rank of the amended claim: Date ranks strictly above String.
VariantOrder == <<"Null", "Bool", "Integer", "Float", "String", "Date">>
RankOf(v) == CHOOSE k \in 1..Len(VariantOrder) : VariantOrder[k] = v.tag

\* C2 as stated: across variants the comparison is the comparison of the
\* ranks Null < Bool < Integer < Float < String = Date.
C2_SharedRankDecides ==
    (IsSome(cmp_result) /\ lhs.tag # rhs.tag) =>
        /\ Unwrap(cmp_result).lr = IntCmp(ClaimedRank(lhs), ClaimedRank(rhs))
        /\ ~Unwrap(cmp_result).eq

\* C2 amended: across variants the comparison is the comparison of the ranks
\* Null < Bool < Integer < Float < String < Date, never Equal and never ==;
\* within a variant: false < true, integers by value, floats that are not NaN
\* by value, texts in dictionary order.
C2_RankThenPayload ==
    IsSome(cmp_result) =>
        LET r == Unwrap(cmp_result)
        IN  IF lhs.tag # rhs.tag
            THEN /\ r.lr = (IF RankOf(lhs) < RankOf(rhs) THEN "Less" ELSE "Greater")
                 /\ r.rl = (IF RankOf(lhs) < RankOf(rhs) THEN "Greater" ELSE "Less")
                 /\ ~r.eq
            ELSE CASE lhs.tag = "Null" -> r.lr = "Equal"
                   [] lhs.tag = "Bool" -> (r.lr = "Less") <=> (~lhs.b /\ rhs.b)
                   [] lhs.tag = "Integer" ->
                        /\ (r.lr = "Less") <=> (lhs.i < rhs.i)
                        /\ (r.lr = "Equal") <=> (lhs.i = rhs.i)
                   [] lhs.tag = "Float" ->
                        (~IsNaN(lhs.f) /\ ~IsNaN(rhs.f)) =>
                            /\ NumVal(lhs.f) < NumVal(rhs.f) => r.lr = "Less"
                            /\ NumVal(lhs.f) > NumVal(rhs.f) => r.lr = "Greater"
                   [] lhs.tag \in {"String", "Date"} ->
                        /\ (r.lr = "Less") <=> LexLess(lhs.s, rhs.s)
                        /\ (r.lr = "Equal") <=> (lhs.s = rhs.s)

\* A String has been compared with a Date holding a smaller text.
C2_Witness ==
    /\ IsSome(cmp_result)
    /\ lhs = MString(TextB)
    /\ rhs = MDate(TextA)
    /\ Unwrap(cmp_result).lr = "Less"

(***************************************************************************)
(* C3 -- a Dataset built by from_spectra has column_names equal to the     *)
(* union of the rows' metadata keys, ascending without duplicates; the     *)
(* keys of unique_values are the column names; and unique_values[c] is     *)
(* exactly the set of values some row stores under c.                      *)
(***************************************************************************)
StoredKeys(rows) == UNION {DOMAIN rows[i].metadata : i \in DOMAIN rows}
StoredValues(rows, c) ==
    {rows[i].metadata[c] : i \in {j \in DOMAIN rows : c \in DOMAIN rows[j].metadata}}

C3_IndicesMatchRows ==
    IsSome(dataset) =>
        LET d == Unwrap(dataset)
        IN  /\ d.spectra = spectra
            /\ Range(d.column_names) = StoredKeys(spectra)
            /\ NamesAscending(d.column_names)
            /\ DOMAIN d.unique_values = Range(d.column_names)
            /\ \A c \in DOMAIN d.unique_values :
                   d.unique_values[c] = StoredValues(spectra, c)

\* Built from two rows with different key sets that share a value in s.
C3_Witness ==
    /\ IsSome(dataset)
    /\ Len(spectra) = 2
    /\ DOMAIN spectra[1].metadata = {ColS}
    /\ DOMAIN spectra[2].metadata = {ColS, ColT}
    /\ spectra[1].metadata[ColS] = spectra[2].metadata[ColS]
    /\ Unwrap(dataset).column_names = <<ColS, ColT>>

(***************************************************************************)
(* C5 -- filtered_indices returns, strictly increasing, exactly the rows   *)
(* that for every (c, S) of the filters have S non-empty and either S the  *)
(* full distinct-value set of c or the row's value for c (Null when the    *)
(* row lacks c) in S.                                                      *)
(***************************************************************************)
DistinctValues(d, c) == IF c \in DOMAIN d.unique_values THEN d.unique_values[c] ELSE {}
ValueOrNull(sp, c) == IF c \in DOMAIN sp.metadata THEN sp.metadata[c] ELSE MNull

ClaimedPass(d, flt, sp) ==
    \A c \in DOMAIN flt :
        /\ flt[c] # {}
        /\ \/ flt[c] = DistinctValues(d, c)
           \/ ValueOrNull(sp, c) \in flt[c]

C5_ExactlyTheSelectedRows ==
    last_op = "filtered_indices" =>
        LET d == Unwrap(dataset)
        IN  /\ StrictlyIncreasing(visible_indices)
            /\ Range(visible_indices) =
                   {i \in 0..(Len(d.spectra) - 1) : ClaimedPass(d, filters, d.spectra[i + 1])}

(***************************************************************************)
(* C6 -- for every column c of the dataset with distinct-value set V and   *)
(* any selections of the other columns, filters with c -> V select the     *)
(* same rows as filters without c.                                         *)
(***************************************************************************)
WithColumn(flt, c, S) == [k \in DOMAIN flt \cup {c} |-> IF k = c THEN S ELSE flt[k]]
WithoutColumn(flt, c) == [k \in DOMAIN flt \ {c} |-> flt[k]]

C6_FullSelectionIsNoFilter ==
    last_op = "filtered_indices" =>
        LET d == Unwrap(dataset)
        IN  /\ \A c \in DOMAIN d.unique_values :
                   filtered_indices(d, WithColumn(filters, c, d.unique_values[c]))
                     = filtered_indices(d, WithoutColumn(filters, c))
            /\ \A c \in DOMAIN filters \cap DOMAIN d.unique_values :
                   filters[c] = d.unique_values[c] =>
                       visible_indices = filtered_indices(d, WithoutColumn(filters, c))

\* s is fully selected, a row lacks s and is visible, and the selection of
\* t hides another row.
C6_Witness ==
    /\ last_op = "filtered_indices"
    /\ ColS \in DOMAIN filters
    /\ ColS \in DOMAIN Unwrap(dataset).unique_values
    /\ filters[ColS] = Unwrap(dataset).unique_values[ColS]
    /\ MNull \notin filters[ColS]
    /\ Len(spectra) = 2
    /\ ColS \notin DOMAIN spectra[1].metadata
    /\ ColS \in DOMAIN spectra[2].metadata
    /\ visible_indices = <<0>>

(***************************************************************************)
(* C8 -- a row that lacks column c and a row that stores c = Null, equal   *)
(* otherwise, are filtered alike by every FilterState.                     *)
(***************************************************************************)
SameButAbsentVsNull(r1, r2, c) ==
    /\ c \notin DOMAIN r1.metadata
    /\ c \in DOMAIN r2.metadata
    /\ r2.metadata[c] = MNull
    /\ DOMAIN r2.metadata = DOMAIN r1.metadata \cup {c}
    /\ \A k \in DOMAIN r1.metadata : r1.metadata[k] = r2.metadata[k]
    /\ r1.x = r2.x
    /\ r1.y = r2.y

C8_AbsentFiltersLikeNull ==
    last_op = "filtered_indices" =>
        \A i, j \in DOMAIN spectra : \A c \in Columns :
            SameButAbsentVsNull(spectra[i], spectra[j], c) =>
                ((i - 1) \in Range(visible_indices) <=> (j - 1) \in Range(visible_indices))

\* Row 0 lacks s, row 1 stores s = Null, the selection of s is a proper
\* selection that holds Null, and both rows are visible.
C8_Witness ==
    /\ last_op = "filtered_indices"
    /\ Len(spectra) = 2
    /\ SameButAbsentVsNull(spectra[1], spectra[2], ColS)
    /\ ColS \in DOMAIN filters
    /\ filters[ColS] = {MNull, MString(TextA)}
    /\ visible_indices = <<0, 1>>

(***************************************************************************)
(* C4 -- every Dataset returned by a successful load (parquet, JSON, CSV)  *)
(* has len(row.x) = len(row.y) in every row, whatever well-formed and      *)
(* malformed rows the file holds.                                          *)
(***************************************************************************)
LoadSucceeded == IsSome(loaded) /\ Unwrap(loaded).ok
LoadedDataset == Unwrap(Unwrap(loaded).value)

C4_LoadedRowsHaveEqualLengths ==
    LoadSucceeded =>
        \A i \in DOMAIN LoadedDataset.spectra :
            Len(LoadedDataset.spectra[i].x) = Len(LoadedDataset.spectra[i].y)

\* A parquet file of two rows in two batches has been loaded; its rows have
\* series of 2 and of 0 values.
C4_Witness ==
    /\ LoadSucceeded
    /\ Unwrap(file).format = "parquet"
    /\ Len(Unwrap(file).pq.batches) = 2
    /\ Len(LoadedDataset.spectra) = 2
    /\ Len(LoadedDataset.spectra[1].x) = 2
    /\ Len(LoadedDataset.spectra[2].y) = 0

(***************************************************************************)
(* C10 -- a row whose x and y series differ in length, all earlier rows    *)
(* being well-formed, fails the load with an error that reports both       *)
(* lengths; no dataset is returned, whatever rows precede or follow.       *)
(***************************************************************************)
\* What a row of a file holds, read off the file's content: whether it has
\* an x and a y series of numbers, and their lengths.
RowView(series, x_len, y_len) == [series |-> series, x_len |-> x_len, y_len |-> y_len]
NoSeries == RowView(FALSE, 0, 0)

JsonIsSeries(rec, key) ==
    /\ key \in DOMAIN rec.fields
    /\ rec.fields[key].t = "array"
    /\ \A j \in DOMAIN rec.fields[key].a : rec.fields[key].a[j].t = "number"
JsonRowView(rec) ==
    IF rec.object /\ JsonIsSeries(rec, NameX) /\ JsonIsSeries(rec, NameY)
    THEN RowView(TRUE, Len(rec.fields[NameX].a), Len(rec.fields[NameY].a))
    ELSE NoSeries

CsvTokens(s) == split(s, Chr(";"))
CsvIsSeries(s) == \A j \in DOMAIN CsvTokens(s) : IsSome(parse_f64(trim(CsvTokens(s)[j])))
FirstAt(names, n) == SetMin({k \in 1..Len(names) : names[k] = n})
CsvRowView(headers, rec) ==
    LET xs == rec[FirstAt(headers, NameX)]
        ys == rec[FirstAt(headers, NameY)]
    IN  IF CsvIsSeries(xs) /\ CsvIsSeries(ys)
        THEN RowView(TRUE, Len(CsvTokens(xs)), Len(CsvTokens(ys)))
        ELSE NoSeries

PqIsSeries(field, cell) ==
    ~cell.null /\ field.dtype \in {"List", "LargeList"} /\ field.inner \in {"Float64", "Float32"}
PqRowView(schema, cells) ==
    LET kx == FirstAt([k \in 1..Len(schema) |-> schema[k].name], NameX)
        ky == FirstAt([k \in 1..Len(schema) |-> schema[k].name], NameY)
    IN  IF PqIsSeries(schema[kx], cells[kx]) /\ PqIsSeries(schema[ky], cells[ky])
        THEN RowView(TRUE, Len(cells[kx].list), Len(cells[ky].list))
        ELSE NoSeries

RECURSIVE PqAllRows(_)
PqAllRows(batches) ==
    IF batches = <<>> \/ ~Head(batches).ok THEN <<>>
    ELSE Head(batches).rows \o PqAllRows(Tail(batches))

HasNames(names, wanted) == wanted \subseteq {names[k] : k \in 1..Len(names)}

\* The rows of a file that load_file gets to read, in file order.
RowViews(f) ==
    LET ext == IF IsSome(f.ext) THEN to_ascii_lowercase(Unwrap(f.ext)) ELSE <<>>
    IN  IF ~f.readable THEN <<>>
        ELSE IF ext = ExtJson /\ f.format = "json" /\ f.json.valid /\ f.json.is_array
        THEN [i \in DOMAIN f.json.records |-> JsonRowView(f.json.records[i])]
        ELSE IF /\ ext = ExtCsv
                /\ f.format = "csv"
                /\ HasNames(f.csv.headers, {NameX, NameY})
        THEN [i \in DOMAIN f.csv.records |->
                 IF Len(f.csv.records[i]) = Len(f.csv.headers)
                 THEN CsvRowView(f.csv.headers, f.csv.records[i]) ELSE NoSeries]
        ELSE IF /\ ext \in {ExtParquet, ExtPq}
                /\ f.format = "parquet"
                /\ f.pq.valid
                /\ HasNames([k \in 1..Len(f.pq.schema) |-> f.pq.schema[k].name], {NameX, NameY})
        THEN LET rows == PqAllRows(f.pq.batches)
             IN  [i \in DOMAIN rows |-> PqRowView(f.pq.schema, rows[i])]
        ELSE <<>>

FirstMismatchAt(rows, i) ==
    /\ rows[i].series
    /\ rows[i].x_len # rows[i].y_len
    /\ \A j \in 1..(i - 1) : rows[j].series /\ rows[j].x_len = rows[j].y_len

C10_LengthMismatchFailsLoad ==
    IsSome(loaded) =>
        LET rows == RowViews(Unwrap(file))
            r == Unwrap(loaded)
        IN  /\ \A i \in DOMAIN rows :
                   FirstMismatchAt(rows, i) =>
                       /\ ~r.ok
                       /\ r.value = None
                       /\ Unwrap(r.err).kind = "ShapeMismatch"
                       /\ Unwrap(r.err).x_len = rows[i].x_len
                       /\ Unwrap(r.err).y_len = rows[i].y_len
            /\ Unwrap(file) = ScenarioCsv => r = Err(ShapeMismatch(0, 3, 2))

\* A CSV file whose second record has x = "1;2;3" and y = "4;5", after a
\* well-formed first record, has failed to load.
C10_Witness ==
    /\ IsSome(loaded)
    /\ Unwrap(file).format = "csv"
    /\ Unwrap(file).csv.headers = <<NameX, NameY, ColS>>
    /\ Len(Unwrap(file).csv.records) = 2
    /\ FirstMismatchAt(RowViews(Unwrap(file)), 2)
    /\ Unwrap(loaded) = Err(ShapeMismatch(1, 3, 2))

(***************************************************************************)
(* C7.  If filters contains any column whose selection set is empty,       *)
(* filtered_indices returns the empty sequence, whatever the other         *)
(* selections are; consequently after AppState::select_none(c)             *)
(* visible_indices is empty.                                               *)
(***************************************************************************)
HasEmptySelection(flt) == \E c \in DOMAIN flt : flt[c] = {}

ScenarioLoaded == file = Some(ScenarioJson)

\* The values the rows of ds store under column c.
StoredUnder(ds, c) ==
    {ds.spectra[k].metadata[c] :
        k \in {j \in DOMAIN ds.spectra : c \in DOMAIN ds.spectra[j].metadata}}

\* Some row of ds lacks column c.
SomeRowOmits(ds, c) == \E k \in DOMAIN ds.spectra : c \notin DOMAIN ds.spectra[k].metadata

ScenarioFiltersTo(distinct) ==
    ScenarioLoaded =>
        /\ IsSome(dataset)
        /\ Len(Unwrap(dataset).spectra) = 3
        /\ ColS \in DOMAIN Unwrap(dataset).unique_values
        /\ Unwrap(dataset).unique_values[ColS] = distinct
        /\ (filters = (ColS :> {MString(TextA)})) => visible_indices = <<0>>

C9_OmittedColumnAddsNull ==
    /\ IsSome(dataset) =>
           \A c \in DOMAIN Unwrap(dataset).unique_values :
               Unwrap(dataset).unique_values[c] =
                   StoredUnder(Unwrap(dataset), c)
                       \cup (IF SomeRowOmits(Unwrap(dataset), c) THEN {MNull} ELSE {})
    /\ ScenarioFiltersTo({MNull, MString(TextA), MString(TextB)})

(***************************************************************************)
(* C9, amended.  A column's distinct-value set holds exactly the values    *)
(* the rows store under it; a row that omits the column adds nothing.      *)
(* Loading the three records yields 3 rows, distinct values of s equal to  *)
(* {"A", "B"}, and filtering s to {"A"} yields visible indices [0].        *)
(***************************************************************************)
C9_OmittedColumnAddsNothing ==
    /\ IsSome(dataset) =>
           \A c \in DOMAIN Unwrap(dataset).unique_values :
               Unwrap(dataset).unique_values[c] = StoredUnder(Unwrap(dataset), c)
    /\ ScenarioFiltersTo({MString(TextA), MString(TextB)})

\* The scenario's file is loaded and s has been filtered to {"A"}.
C9_Witness ==
    /\ ScenarioLoaded
    /\ IsSome(dataset)
    /\ SomeRowOmits(Unwrap(dataset), ColS)
    /\ filters = (ColS :> {MString(TextA)})
    /\ visible_indices = <<0>>

(***************************************************************************)
(* C11.  When a load fails in the application (open_file_dialog receives   *)
(* Err), the previously loaded dataset, the filters, visible_indices,      *)
(* color_column and color_map are all left unchanged; only status_message  *)
(* (set to the error text) and loading (set to false) change.  This holds  *)
(* after any prior sequence of loads and filter operations.                *)
(***************************************************************************)
LoadJustFailed == last_op = "open_file_dialog" /\ IsSome(loaded) /\ ~Unwrap(loaded).ok

C11_FailedLoadKeepsState ==
    [][(last_op' = "open_file_dialog" /\ IsSome(loaded') /\ ~Unwrap(loaded').ok) =>
          /\ dataset' = dataset
          /\ filters' = filters
          /\ visible_indices' = visible_indices
          /\ color_column' = color_column
          /\ color_map' = color_map
          /\ status_message' = Some(Unwrap(Unwrap(loaded').err))
          /\ loading' = FALSE]_vars

\* A load has just failed while a dataset with a narrowed selection and a
\* colour map was in place.
C11_Witness ==
    /\ LoadJustFailed
    /\ IsSome(dataset)
    /\ Len(Unwrap(dataset).spectra) > 0
    /\ filters # init_filter_state(Unwrap(dataset))
    /\ Len(visible_indices) < Len(Unwrap(dataset).spectra)
    /\ IsSome(color_map)
    /\ status_message = Some(Unwrap(Unwrap(loaded).err))

(***************************************************************************)
(* C12.  After AppState::set_dataset(d), from any prior state, every       *)
(* derived structure is replaced as a unit from d alone: filters equals    *)
(* d.unique_values exactly, visible_indices is [0, 1, ..., len(d)-1],      *)
(* color_column is d's first column name (None when d has no metadata      *)
(* column), color_map is built from that column of d, status_message is    *)
(* cleared and loading is false.                                           *)
(***************************************************************************)
LoadJustSucceeded == last_op = "open_file_dialog" /\ IsSome(loaded) /\ Unwrap(loaded).ok

\* The colour map is the one of column c of d: the values of c, in order,
\* against the palette of that many colours.
ColorMapOf(cm, d, c) ==
    /\ cm.column = c
    /\ DOMAIN cm.mapping = d.unique_values[c]
    /\ LET sorted == SortedValues(d.unique_values[c])
       IN  \A k \in DOMAIN sorted :
               cm.mapping[sorted[k]] = generate_palette(Len(sorted))[k]

C12_SetDatasetReplacesAll ==
    [][(last_op' = "open_file_dialog" /\ IsSome(loaded') /\ Unwrap(loaded').ok) =>
          LET d == Unwrap(Unwrap(loaded').value)
          IN  /\ dataset' = Some(d)
              /\ DOMAIN filters' = DOMAIN d.unique_values
              /\ \A c \in DOMAIN filters' : filters'[c] = d.unique_values[c]
              /\ visible_indices' = [k \in 1..Len(d.spectra) |-> k - 1]
              /\ color_column' = (IF d.column_names = <<>> THEN None
                                  ELSE Some(d.column_names[1]))
              /\ IF d.column_names = <<>> THEN color_map' = None
                 ELSE /\ IsSome(color_map')
                      /\ ColorMapOf(Unwrap(color_map'), d, d.column_names[1])
              /\ status_message' = None
              /\ loading' = FALSE]_vars

\* set_dataset has just run on a dataset with rows and a metadata column.
C12_Witness ==
    /\ LoadJustSucceeded
    /\ IsSome(dataset)
    /\ Len(Unwrap(dataset).spectra) > 0
    /\ filters = Unwrap(dataset).unique_values
    /\ ColS \in DOMAIN filters
    /\ status_message = None

(***************************************************************************)
(* C13.  load dispatches only on the path's extension compared             *)
(* case-insensitively: parquet or pq selects the columnar reader, json the *)
(* record-array reader, csv the delimited reader; any other extension      *)
(* (including a missing extension) yields an unsupported-format error that *)
(* names the extension, without reading the file.                          *)
(***************************************************************************)
IsLetter(c) == (c >= Chr("A") /\ c <= Chr("Z")) \/ (c >= Chr("a") /\ c <= Chr("z"))

\* Two texts are the same up to the case of their letters.
CaseEq(a, b) ==
    /\ Len(a) = Len(b)
    /\ \A k \in 1..Len(a) :
           \/ a[k] = b[k]
           \/ IsLetter(a[k]) /\ IsLetter(b[k]) /\ (a[k] - b[k] = 32 \/ b[k] - a[k] = 32)

\* The extension of the path, empty when the path has none.
ExtOf(f) == IF IsSome(f.ext) THEN Unwrap(f.ext) ELSE <<>>

C13_DispatchOnExtension ==
    IsSome(loaded) =>
        LET f == Unwrap(file)
            r == Unwrap(loaded)
        IN  IF CaseEq(ExtOf(f), ExtParquet) \/ CaseEq(ExtOf(f), ExtPq) THEN r = load_parquet(f)
            ELSE IF CaseEq(ExtOf(f), ExtJson) THEN r = load_json(f)
            ELSE IF CaseEq(ExtOf(f), ExtCsv) THEN r = load_csv(f)
            ELSE /\ ~r.ok
                 /\ r.value = None
                 /\ Unwrap(r.err).kind = "UnsupportedFormat"
                 /\ CaseEq(Unwrap(r.err).text, ExtOf(f))

\* A file with the extension JSON in capitals has been read by the
\* record-array reader.
C13_Witness ==
    /\ IsSome(loaded)
    /\ ExtOf(Unwrap(file)) = Str(<<"J", "S", "O", "N">>)
    /\ Unwrap(loaded).ok
    /\ Unwrap(loaded) = load_json(Unwrap(file))

(***************************************************************************)
(* C14.  In the columnar (parquet) reader, a row whose x or y list         *)
(* contains a null element, or whose list slot itself is null, makes the   *)
(* load fail with an error for that row; no successfully loaded dataset    *)
(* contains a numeric value that originated from a null list element.      *)
(***************************************************************************)
\* The file is one the columnar reader reads rows of.
PqRead(f) ==
    /\ f.readable
    /\ f.format = "parquet"
    /\ CaseEq(ExtOf(f), ExtParquet) \/ CaseEq(ExtOf(f), ExtPq)
    /\ f.pq.valid
    /\ HasNames([k \in 1..Len(f.pq.schema) |-> f.pq.schema[k].name], {NameX, NameY})

\* The x or y slot of the row is null or its list holds a null element.
PqNullInSeries(schema, cells) ==
    \E n \in {NameX, NameY} :
        LET k == FirstAt([j \in 1..Len(schema) |-> schema[j].name], n)
        IN  cells[k].null \/ \E j \in DOMAIN cells[k].list : cells[k].list[j].null

C14_NullInListFailsLoad ==
    (IsSome(loaded) /\ PqRead(Unwrap(file))) =>
        LET f == Unwrap(file)
            rows == PqAllRows(f.pq.batches)
        IN  (\E i \in DOMAIN rows : PqNullInSeries(f.pq.schema, rows[i])) =>
                ~Unwrap(loaded).ok

(***************************************************************************)
(* C15.  A columnar (parquet) file that has no x column or no y column     *)
(* always fails to load with a missing-column error, raised before any row *)
(* is processed, for every number of record batches and rows the file      *)
(* contains (including a file with no rows); likewise a CSV file whose     *)
(* header lacks x or y fails before any record is read.                    *)
(***************************************************************************)
\* The file is a readable and valid one of its format, opened by the reader
\* of that format.
PqOpened(f) ==
    /\ f.readable
    /\ f.format = "parquet"
    /\ CaseEq(ExtOf(f), ExtParquet) \/ CaseEq(ExtOf(f), ExtPq)
    /\ f.pq.valid

CsvOpened(f) == f.readable /\ f.format = "csv" /\ CaseEq(ExtOf(f), ExtCsv)

MissingOf(names) == {n \in {NameX, NameY} : \A k \in 1..Len(names) : names[k] # n}

FailsWithMissingColumn(r, missing) ==
    /\ ~r.ok
    /\ r.value = None
    /\ Unwrap(r.err).kind = "MissingRequiredColumn"
    /\ Unwrap(r.err).col \in missing

C15_MissingColumnFailsLoad ==
    IsSome(loaded) =>
        LET f == Unwrap(file)
            pq_missing == MissingOf([k \in 1..Len(f.pq.schema) |-> f.pq.schema[k].name])
            csv_missing == MissingOf(f.csv.headers)
        IN  /\ (PqOpened(f) /\ pq_missing # {}) =>
                   FailsWithMissingColumn(Unwrap(loaded), pq_missing)
            /\ (CsvOpened(f) /\ csv_missing # {}) =>
                   FailsWithMissingColumn(Unwrap(loaded), csv_missing)

(***************************************************************************)
(* C16.  For every metadata cell of a CSV file the type is chosen by the   *)
(* first matching rule in this order: empty string gives Null; text        *)
(* parsable as a signed 64-bit integer gives Integer; text parsable as a   *)
(* float gives Float; the literal true or false gives Bool; anything else  *)
(* gives String with the cell text unchanged.  In particular an            *)
(* integer-looking cell is never Float and a cell is Bool only for exactly *)
(* those two lowercase literals.                                           *)
(***************************************************************************)
LiteralTrue == Str(<<"t", "r", "u", "e">>)
LiteralFalse == Str(<<"f", "a", "l", "s", "e">>)

\* The text is an optional sign and digits of a number within i64.
LooksInteger(s) ==
    /\ Unsigned(s) # <<>>
    /\ \A k \in 1..Len(Unsigned(s)) : IsDigit(Unsigned(s)[k])
    /\ DigitsLeq(Unsigned(s), IF IsNegative(s) THEN I64MinDigits ELSE I64MaxDigits)

C16_FirstMatchingRule ==
    IsSome(guessed) =>
        LET s == cell_text
            g == Unwrap(guessed)
        IN  /\ IF s = <<>> THEN g = MNull
               ELSE IF LooksInteger(s) THEN g = MInteger(Unwrap(parse_i64(s)))
               ELSE IF IsSome(parse_f64(s)) THEN g = MFloat(Unwrap(parse_f64(s)))
               ELSE IF s \in {LiteralTrue, LiteralFalse} THEN g = MBool(s = LiteralTrue)
               ELSE g = MString(s)
            /\ LooksInteger(s) => g.tag # "Float"
            /\ g.tag = "Bool" <=> s \in {LiteralTrue, LiteralFalse}
            /\ g.tag = "Null" <=> s = <<>>

\* The cell "-1", which also parses as a float, has been typed Integer.
C16_Witness ==
    /\ IsSome(guessed)
    /\ cell_text = Str(<<"-", "1">>)
    /\ IsSome(parse_f64(cell_text))
    /\ Unwrap(guessed) = MInteger(0 - 1)

(***************************************************************************)
(* C17.  For a ColorMap built from a distinct-value set with sorted        *)
(* elements v_0 < ... < v_{n-1}: color_for(v_i) is the i-th colour of      *)
(* generate_palette(n) (hue i/n of the circle), color_for of any value not *)
(* in the set is the fixed gray fallback, and for n = 0 every lookup       *)
(* returns the fallback.  Building twice from the same column and value    *)
(* set gives identical value-to-colour assignments and identical           *)
(* legend_entries (one entry per value, in sorted order).                  *)
(***************************************************************************)
\* The number of values of S below v in the total order.
RankIn(S, v) == Cardinality({o \in S : cmp(o, v) = "Less"})

ColorsFollowSortedValues ==
    IsSome(color_map) =>
        LET cm == Unwrap(color_map)
            n == Cardinality(color_values)
        IN  /\ \A v \in color_values :
                   /\ color_for(cm, v) = generate_palette(n)[RankIn(color_values, v) + 1]
                   /\ color_for(cm, v) = HslToColor32(RankIn(color_values, v), n)
            /\ \A v \in ColorValues \ color_values : color_for(cm, v) = GRAY
            /\ Len(legend_entries(cm)) = n
            /\ \A v \in color_values :
                   legend_entries(cm)[RankIn(color_values, v) + 1]
                       = <<to_string(v), color_for(cm, v)>>

\* Building once more changes neither the assignments nor the legend.
C17_ColorsFollowSortedValues ==
    /\ []ColorsFollowSortedValues
    /\ [][IsSome(color_map) =>
              /\ color_map' = color_map
              /\ legend_entries(Unwrap(color_map')) = legend_entries(Unwrap(color_map))]_vars

\* A map of three values, a NaN among them, has been built twice, and a
\* value outside the set is looked up.
C17_Witness ==
    /\ last_op = "ColorMap::new again"
    /\ Cardinality(color_values) = 3
    /\ MFloat(NaN) \in color_values
    /\ MFloat(F64(FALSE, 0)) \in color_values
    /\ MFloat(F64(TRUE, 0)) \notin color_values
    /\ color_for(Unwrap(color_map), MFloat(F64(TRUE, 0))) = GRAY

(***************************************************************************)
(* C18.  In every dataset produced by a load, the series columns x and y   *)
(* are never metadata: neither "x" nor "y" appears in column_names, in     *)
(* unique_values, or as a key of any row's metadata, for every file layout *)
(* the reader accepts (including headers or schemas in which a name occurs *)
(* more than once).                                                        *)
(***************************************************************************)
C18_SeriesNeverMetadata ==
    (IsSome(loaded) /\ Unwrap(loaded).ok) =>
        LET d == Unwrap(Unwrap(loaded).value)
        IN  \A n \in {NameX, NameY} :
                /\ \A k \in DOMAIN d.column_names : d.column_names[k] # n
                /\ n \notin DOMAIN d.unique_values
                /\ \A i \in DOMAIN d.spectra : n \notin DOMAIN d.spectra[i].metadata

\* filtered_indices with the closure that has no "everything selected" skip.
RECURSIVE CollectIndicesNoSkip(_, _, _)
CollectIndicesNoSkip(ds, flt, i) ==
    IF i >= Len(ds.spectra) THEN <<>>
    ELSE (IF row_passes_noskip(ds, flt, ds.spectra[i + 1], SortedNames(DOMAIN flt))
          THEN <<i>> ELSE <<>>)
         \o CollectIndicesNoSkip(ds, flt, i + 1)

(***************************************************************************)
(* C19.  Skipping a column's test when its selection covers all of the     *)
(* column's distinct values changes no result: for every dataset and       *)
(* filters, filtered_indices returns the same indices as the version       *)
(* without the skip, which applies the per-row test (the row's value in S, *)
(* or Null in S when the row lacks the column) for every non-empty S.      *)
(***************************************************************************)
C19_SkipChangesNoResult ==
    last_op = "filtered_indices" =>
        visible_indices = CollectIndicesNoSkip(Unwrap(dataset), filters, 0)

\* The rows of a file, in file order, that have no readable x and y series
\* or whose series differ in length.
OffendingRows(f) ==
    {i \in DOMAIN RowViews(f) :
        ~RowViews(f)[i].series \/ RowViews(f)[i].x_len # RowViews(f)[i].y_len}

(***************************************************************************)
(* C20.  The row index named in a load error (shape mismatch, malformed    *)
(* element, unreadable list) is the 0-based position of the offending row  *)
(* in the file's row sequence, the index the row would have had in the     *)
(* dataset; for JSON, for CSV and for parquet files whose rows come in     *)
(* more than one record batch.                                             *)
(***************************************************************************)
C20_ErrorRowIsFilePosition ==
    (IsSome(loaded) /\ ~Unwrap(loaded).ok /\ Unwrap(Unwrap(loaded).err).row >= 0) =>
        /\ OffendingRows(Unwrap(file)) # {}
        /\ Unwrap(Unwrap(loaded).err).row = SetMin(OffendingRows(Unwrap(file))) - 1

(***************************************************************************)
(* C21.  The visible-index cache is never stale or out of range: after     *)
(* every AppState operation (set_dataset, a failed load,                   *)
(* toggle_filter_value, select_all, select_none, set_color_column,         *)
(* refilter, a side-panel frame with checkbox edits), in any order,        *)
(* visible_indices equals filtered_indices(current dataset, current        *)
(* filters) and every index in it is smaller than the dataset's row count; *)
(* while no dataset is loaded the cache is empty.                          *)
(***************************************************************************)
C21_VisibleIndicesFresh ==
    IF IsSome(dataset)
    THEN /\ visible_indices = filtered_indices(Unwrap(dataset), filters)
         /\ \A k \in DOMAIN visible_indices :
                visible_indices[k] >= 0 /\ visible_indices[k] < Len(Unwrap(dataset).spectra)
    ELSE visible_indices = <<>>

\* A side-panel frame has run on the three rows of the scenario with only
\* the value "A" of s selected: exactly the first row is visible.
C21_Witness ==
    /\ last_op = "side_panel"
    /\ ScenarioLoaded
    /\ Len(Unwrap(dataset).spectra) = 3
    /\ visible_indices = <<0>>
    /\ ColS \in DOMAIN filters
    /\ filters[ColS] = {MString(TextA)}

\* A dataset is loaded and color_column names one of its columns.
ColorColumnApplies ==
    /\ IsSome(dataset)
    /\ IsSome(color_column)
    /\ Unwrap(color_column) \in Range(Unwrap(dataset).column_names)

(***************************************************************************)
(* C22.  The colour map always matches the current column and dataset: in  *)
(* every state reachable by set_dataset, set_color_column, failed loads    *)
(* and filter operations, color_map is present exactly when a dataset is   *)
(* loaded and color_column names a column of it, and then its column is    *)
(* color_column and its mapped values are exactly the dataset's distinct   *)
(* values of that column; no map of a previous dataset or column remains.  *)
(***************************************************************************)
C22_ColorMapMatchesColumn ==
    /\ IsSome(color_map) <=> ColorColumnApplies
    /\ ColorColumnApplies =>
           /\ Unwrap(color_map).column = Unwrap(color_column)
           /\ DOMAIN Unwrap(color_map).mapping
                  = Unwrap(dataset).unique_values[Unwrap(color_column)]

\* set_color_column has just named a column the loaded dataset lacks, after
\* a load that had built a map for column s: no map is left.
C22_Witness ==
    /\ last_op = "set_color_column"
    /\ IsSome(dataset)
    /\ Unwrap(dataset).column_names = <<ColS>>
    /\ color_column = Some(ColT)
    /\ color_map = None

\* filters and visible_indices after toggle_filter_value(column, value) is
\* called on the state that holds flt and vis (state.rs 91-99).
AfterToggle(flt, vis, column, value) ==
    [filters |-> toggled(flt, column, value),
     visible_indices |-> refilter(dataset, toggled(flt, column, value), vis)]

TwiceToggled(column, value) ==
    AfterToggle(AfterToggle(filters, visible_indices, column, value).filters,
                AfterToggle(filters, visible_indices, column, value).visible_indices,
                column, value)

(***************************************************************************)
(* C23.  toggle_filter_value is an involution: from any reachable          *)
(* AppState, for any column name and any value, calling                    *)
(* toggle_filter_value(column, value) twice in a row leaves filters and    *)
(* visible_indices exactly as they were before the first call.             *)
(***************************************************************************)
C23_ToggleTwiceRestores ==
    \A column \in Columns, value \in CellValues :
        /\ TwiceToggled(column, value).filters = filters
        /\ TwiceToggled(column, value).visible_indices = visible_indices

====
